---- MODULE Spec2Model ----
\* Verification model of the logtide-javascript core: the CircuitBreaker
\* (packages/core/src/utils/circuit-breaker.ts) and the BatchTransport
\* (packages/core/src/transport/batch.ts, kept as src/unnamed/part_000).
EXTENDS Integers, Sequences, FiniteSets, TLC

\* ---------------------------------------------------------------- bounds
MaxTime == 2
MaxThreshold == 2
MaxResetMs == 2
MaxFailures == 4
MaxItems == 2
MaxRetryLimit == 1
MaxClients == 2
MaxCrumbs == 2
MaxCloses == 2
MaxCaptures == 1
ScopeCapacity == 1
MaxSpans == 2

\* the batch sizes, buffer capacities and breaker thresholds explored with
\* the transport
BatchSizes == {1, 2, 3}
BufferCaps == {1, 2}
Thresholds == {1, 2}

\* lastFailureTime: number | null -- null is modelled as -1 (Date.now() >= 0)
Null == 0 - 1

VARIABLES
    \* CircuitBreaker fields
    state, failureCount, lastFailureTime, threshold, resetMs,
    \* Date.now()
    now,
    \* BatchTransport fields; timer is TRUE while this.timer is not null
    logBuffer, spanBuffer, timer,
    batchSize, maxBufferSize, maxRetries, retryDelayMs,
    \* whether the injected inner transport implements the optional sendSpans
    innerHasSendSpans,
    \* the flush() calls suspended on the inner transport or on a backoff delay
    flights,
    \* items are numbered in the order they are offered: the next log and span
    nextLog, nextSpan,
    \* the last operation that ran, the breaker state it started in and what
    \* it returned ("void", or the "true"/"false" of the canAttempt() it made)
    opName, opRet, opFrom,
    \* the call to the inner transport made by the last operation, and the
    \* batch that the last operation finished (delivered or given up)
    call, done,
    \* history: recordFailure() calls since the last recordSuccess()/construction
    consecFailures,
    \* history: nextLog/nextSpan when the buffers were last drained
    lastLogDrain, lastSpanDrain,
    \* history: the items of the batches given up after the last retry
    lostLogs, lostSpans,
    \* history: "init", then "sendLogs" ("sendSpans") while every call made to the
    \* transport so far was a single-item sendLogs (sendSpans), then "mixed"
    hist,
    \* history: the items of the batches the inner transport accepted
    sentLogs, sentSpans,
    \* how the promise of a flush() (and of the sendLogs()/sendSpans() awaiting
    \* it) settled in the last step: "none", "fulfilled" or "rejected"
    settled,
    \* the Hub singleton, the SpanManager and the node LogTideClient, one
    \* record of fields each
    hub, sm, node, bb, tc, se, scope, con

cbVars == <<state, failureCount, lastFailureTime, threshold, resetMs>>
cfgVars == <<batchSize, maxBufferSize, maxRetries, retryDelayMs, innerHasSendSpans>>
btVars == <<logBuffer, spanBuffer, timer, flights, nextLog, nextSpan>>
obsVars == <<opName, opRet, opFrom, call, done, settled>>
histVars == <<lastLogDrain, lastSpanDrain, lostLogs, lostSpans, hist, sentLogs, sentSpans>>
\* the components beside the transport and its breaker
compVars == <<hub, sm, node, bb, tc, se, scope, con>>
vars == <<cbVars, now, cfgVars, btVars, obsVars, consecFailures, histVars, compVars>>

\* ------------------------------------------------------------- records
\* no call to the inner transport / no batch finished
NoCall == [kind |-> "none", items |-> <<>>, attempt |-> 0]
NoDone == [kind |-> "none", items |-> <<>>, outcome |-> "none", calls |-> 0]

\* ------------------------------------- the components, as constructed
\* hub.ts 11-16: no client held, a fresh global scope. `clients` are the
\* LogtideClient objects constructed so far (a client is named by its place
\* in it, 0 is null); `pending` counts the close() calls suspended at their
\* await, by the client each found; `closes` counts the close() calls made.
NoHubOp == [name |-> "new", opts |-> "none", target |-> 0, ret |-> 0, threw |-> FALSE]

NewHub ==
    [client |-> 0, clients |-> <<>>, scopeCrumbs |-> <<>>, nextCrumb |-> 1,
     pending |-> [t \in 0..MaxClients |-> 0], closes |-> 0, op |-> NoHubOp]

\* breadcrumb-buffer.ts 43: no open span. `spans` are the Span objects
\* created so far (generateSpanId() is taken to return a fresh id each time:
\* a span is named by its place in `spans`, 0 is undefined).
NoSmOp == [name |-> "new", id |-> 0, status |-> "none", ret |-> 0, threw |-> FALSE]

NewSpanManager == [spans |-> <<>>, activeSpans |-> {}, op |-> NoSmOp]

\* No node LogTideClient has been constructed.
NoNodeOp == [name |-> "none", delay |-> Null, ret |-> "void"]

NoNode ==
    [active |-> FALSE, buffer |-> <<>>, timer |-> FALSE,
     batchSize |-> 0, maxBufferSize |-> 0, maxRetries |-> 0, retryDelayMs |-> 0,
     state |-> "CLOSED", failureCount |-> 0, lastFailureTime |-> Null,
     threshold |-> 0, resetMs |-> 0,
     logsSent |-> 0, logsDropped |-> 0, errors |-> 0, retries |-> 0,
     circuitBreakerTrips |-> 0,
     flights |-> {}, nextLog |-> 1,
     closing |-> "none", closeBatch |-> <<>>,
     configuredRetries |-> Null,
     currentTraceId |-> "null", withStack |-> <<>>,
     requests |-> <<>>, written |-> <<>>,
     op |-> NoNodeOp]

\* No operation has run on the BreadcrumbBuffer yet.
NoBbOp == [name |-> "new", ret |-> <<>>]

\* breadcrumb-buffer.ts 5-10: a BreadcrumbBuffer of capacity maxSize, with the
\* breadcrumbs added since construction or the last clear() (history) and
\* the number of the next breadcrumb
NewBreadcrumbBuffer(maxSize) ==
    [buffer |-> <<>>, maxSize |-> maxSize, added |-> <<>>, next |-> 1, op |-> NoBbOp]

\* breadcrumb-buffer.ts 8: the default capacity
DefaultMaxSize == 100

\* What parseTraceparent returns: null, or a TraceContext. Strings are
\* sequences of characters.
NullContext ==
    [null |-> TRUE, version |-> <<>>, traceId |-> <<>>, parentSpanId |-> <<>>,
     sampled |-> FALSE]

\* No trace-context function has been called yet: the arguments of the last
\* call, the header made or parsed and the result of parsing
NoTraceCall ==
    [op |-> "none", traceId |-> <<>>, spanId |-> <<>>, sampled |-> FALSE,
     header |-> <<>>, parsed |-> NullContext]

\* serializeError has not been called: the values it is given (what kind
\* each value is and what its `cause` is, 0 where it has none), which of the
\* two implementations runs, the frames of its recursion and how the
\* outermost call ended
NoSerialize ==
    [status |-> "idle", language |-> "none", kind |-> <<>>, cause |-> <<>>,
     stack |-> <<>>, serialized |-> 0, thrown |-> "none"]

\* No Scope is looked at yet. A Scope: where it came from, its traceId (a
\* sequence of characters), its tags and the last operation on it.
NoScope == [from |-> "none", traceId |-> <<>>, tags |-> {}, op |-> "none"]

\* console.ts 9-14, 52-56: the five console methods the integration patches.
Methods == {"log", "info", "warn", "error", "debug"}

\* The ConsoleIntegration instances and the clients they are set up with.
MaxInstances == 2
ConInstances == 1..MaxInstances
ConClients == {1, 2}

\* A console function: the instances whose interceptors are wrapped around
\* the native function, the innermost first (<<>> is the native function;
\* console.x.bind(console) calls the function it was bound from).
NativeConsole == [m \in Methods |-> <<>>]

\* The console before any integration is set up, instances as constructed
\* (console.ts 7-14: client = null, originals = null) and no breadcrumb on
\* any client.
NoConsole ==
    [console |-> NativeConsole,
     client |-> [i \in ConInstances |-> Null],
     originals |-> [i \in ConInstances |-> [set |-> FALSE, fns |-> NativeConsole]],
     everSetup |-> {},
     breadcrumbs |-> [c \in ConClients |-> <<>>],
     setups |-> 0, calls |-> 0,
     op |-> [name |-> "none", ret |-> "none"]]

InitComponents ==
    /\ hub = NewHub
    /\ sm = NewSpanManager
    /\ node = NoNode
    /\ con = NoConsole
    /\ scope = NoScope
    /\ se = NoSerialize
    /\ tc = NoTraceCall
    /\ bb = NewBreadcrumbBuffer(DefaultMaxSize)

\* ------------------------------------------------------- CircuitBreaker
\* JavaScript truthiness of a `number | null`: null and 0 are falsy.
Truthy(n) == n # Null /\ n # 0

\* circuit-breaker.ts 38: this.lastFailureTime && now - this.lastFailureTime >= this.resetMs
ResetElapsed(lft, t) == Truthy(lft) /\ t - lft >= resetMs

\* The value canAttempt() returns in breaker state st at time t.
canAttemptResult(st, lft, t) ==
    IF st = "CLOSED" THEN TRUE
    ELSE IF st = "OPEN" THEN ResetElapsed(lft, t)
    ELSE TRUE

\* The breaker state canAttempt() leaves behind.
canAttemptState(st, lft, t) ==
    IF st = "OPEN" /\ ResetElapsed(lft, t) THEN "HALF_OPEN" ELSE st

canAttempt ==
    /\ state' = canAttemptState(state, lastFailureTime, now)
    /\ UNCHANGED <<failureCount, lastFailureTime>>

recordSuccess_KeepCount ==
    /\ state' = "CLOSED"
    /\ UNCHANGED <<failureCount, lastFailureTime>>

recordSuccess_KeepState ==
    /\ failureCount' = 0
    /\ UNCHANGED <<state, lastFailureTime>>

recordSuccess ==
    /\ failureCount' = 0
    /\ state' = "CLOSED"
    /\ UNCHANGED lastFailureTime

recordFailure_StampOnOpening ==
    /\ failureCount' = failureCount + 1
    /\ lastFailureTime' = IF state = "CLOSED" THEN now ELSE lastFailureTime
    /\ state' = IF failureCount' >= threshold THEN "OPEN" ELSE state

recordFailure_PastThreshold ==
    /\ failureCount' = failureCount + 1
    /\ lastFailureTime' = now
    /\ state' = IF failureCount' > threshold THEN "OPEN" ELSE state

recordFailure ==
    /\ failureCount' = failureCount + 1
    /\ lastFailureTime' = now
    /\ state' = IF failureCount' >= threshold THEN "OPEN" ELSE state

\* ------------------------------------------------ breaker driven directly
InitBreaker ==
    /\ state = "CLOSED"
    /\ failureCount = 0
    /\ lastFailureTime = Null
    /\ threshold \in 1..MaxThreshold
    /\ resetMs \in 1..MaxResetMs
    /\ now = 0
    /\ opName = "new"
    /\ opRet = "void"
    /\ opFrom = "CLOSED"
    /\ consecFailures = 0

\* The breaker alone: the transport around it is idle.
InitCB ==
    /\ InitBreaker
    /\ logBuffer = <<>> /\ spanBuffer = <<>> /\ timer = FALSE
    /\ batchSize = 1 /\ maxBufferSize = 1 /\ maxRetries = 0 /\ retryDelayMs = 1
    /\ innerHasSendSpans = TRUE
    /\ flights = {}
    /\ nextLog = 1 /\ nextSpan = 1
    /\ call = NoCall /\ done = NoDone
    /\ lastLogDrain = 1 /\ lastSpanDrain = 1
    /\ lostLogs = {} /\ lostSpans = {}
    /\ sentLogs = {} /\ sentSpans = {}
    /\ settled = "none"
    /\ hist = "init"
    /\ InitComponents

idle == <<cfgVars, btVars, call, done, settled, histVars, compVars>>

CBRecordSuccess ==
    /\ recordSuccess
    /\ consecFailures' = 0
    /\ opName' = "recordSuccess"
    /\ opRet' = "void"
    /\ opFrom' = state
    /\ UNCHANGED <<threshold, resetMs, now, idle>>

CBRecordFailure ==
    /\ failureCount < MaxFailures
    /\ recordFailure
    /\ consecFailures' = consecFailures + 1
    /\ opName' = "recordFailure"
    /\ opRet' = "void"
    /\ opFrom' = state
    /\ UNCHANGED <<threshold, resetMs, now, idle>>

CBCanAttempt ==
    /\ canAttempt
    /\ opName' = "canAttempt"
    /\ opRet' = IF canAttemptResult(state, lastFailureTime, now) THEN "true" ELSE "false"
    /\ opFrom' = state
    /\ UNCHANGED <<threshold, resetMs, now, consecFailures, idle>>

\* The clock advances between operations.
Tick ==
    /\ now < MaxTime
    /\ now' = now + 1
    /\ opName' = "tick"
    /\ opRet' = "void"
    /\ opFrom' = state
    /\ call' = NoCall /\ done' = NoDone /\ settled' = "none"
    /\ UNCHANGED <<cbVars, consecFailures, cfgVars, btVars, histVars, compVars>>

NextCB == CBRecordSuccess \/ CBRecordFailure \/ CBCanAttempt \/ Tick

SpecCB == InitCB /\ [][NextCB]_vars

\* ------------------------------------------------------- BatchTransport
Min(a, b) == IF a < b THEN a ELSE b

RECURSIVE Pow2(_)
Pow2(n) == IF n <= 0 THEN 1 ELSE 2 * Pow2(n - 1)

\* The n items offered from number a on, in the order they were offered.
Ids(a, n) == [i \in 1..n |-> a + i - 1]

Elems(s) == {s[i] : i \in 1..Len(s)}

\* part_000 56-60: one iteration of the loop of sendLogs / sendSpans
PushOne_DropOldest(buf, x) ==
    IF Len(buf) >= maxBufferSize THEN Append(Tail(buf), x) ELSE Append(buf, x)

PushOne_NoCap(buf, x) == Append(buf, x)

PushOne(buf, x) ==
    IF Len(buf) >= maxBufferSize THEN buf ELSE Append(buf, x)

RECURSIVE PushAll(_, _)
PushAll(buf, xs) ==
    IF xs = <<>> THEN buf ELSE PushAll(PushOne(buf, Head(xs)), Tail(xs))

\* part_000 63 / 77: the size trigger
SizeReached_Strict(buf) == Len(buf) > batchSize

SizeReached(buf) == Len(buf) >= batchSize

\* part_000 92 / 96: the closure handed to sendWithRetry sends the drained
\* array, whatever the live buffer holds by the time an attempt runs
BatchArg_Live(batch, live) == batch \o live

BatchArg(batch, live) == batch

\* part_000 107: the loop condition of sendWithRetry
LoopContinues_OffByOne(attempt) == attempt < maxRetries

LoopContinues(attempt) == attempt <= maxRetries

\* part_000 115: a delay follows a failed attempt only if attempts remain
DelayFollows(attempt) == attempt < maxRetries

\* (the exponent counted from one)
BackoffDelay_OneIndexed(attempt) == retryDelayMs * Pow2(attempt + 1)

\* part_000 116
BackoffDelay(attempt) == retryDelayMs * Pow2(attempt)

CurBatch(f) == IF f.phase = "logs" THEN f.logs ELSE f.spans

\* this.logBuffer / this.spanBuffer while a suspended flush() resumes
LiveBuffer(phase) == IF phase = "logs" THEN logBuffer ELSE spanBuffer

\* The call to the inner transport that attempt number `attempt` of f makes,
\* `live` being the buffer of its kind at that moment.
CallOf(f, attempt, live) ==
    [kind |-> f.phase, items |-> BatchArg(CurBatch(f), live), attempt |-> attempt]

\* part_000 91-97: what flush() starts with the batches lb and sb it drained
Starts(lb, sb) == lb # <<>> \/ (sb # <<>> /\ innerHasSendSpans)

NewFlight(lb, sb) ==
    [logs |-> lb, spans |-> sb,
     phase |-> IF lb # <<>> THEN "logs" ELSE "spans",
     wait |-> "inner", attempt |-> 0, wakeAt |-> 0, calls |-> 1,
     logFrom |-> lastLogDrain, logMark |-> nextLog',
     spanFrom |-> lastSpanDrain, spanMark |-> nextSpan']

\* part_000 95-97: after the log batch, the span batch of the same flush
NextPhase(f) ==
    IF f.phase = "logs" /\ f.spans # <<>> /\ innerHasSendSpans
    THEN {[f EXCEPT !.phase = "spans", !.wait = "inner", !.attempt = 0,
                    !.wakeAt = 0, !.calls = 1]}
    ELSE {}

NextPhaseCall(f) ==
    IF NextPhase(f) = {} THEN NoCall
    ELSE CallOf([f EXCEPT !.phase = "spans"], 0, LiveBuffer("spans"))

\* Bound of the model: n more items may be offered.
Room(n) == (nextLog - 1) + (nextSpan - 1) + n <= MaxItems

\* part_000 82-98: flush(), on the buffers lb and sb as the caller left them
Flush_DrainFirst(lb, sb) ==
    LET ok == canAttemptResult(state, lastFailureTime, now) IN
    /\ canAttempt
    /\ opRet' = IF ok THEN "true" ELSE "false"
    /\ logBuffer' = <<>>
    /\ spanBuffer' = <<>>
    /\ lastLogDrain' = nextLog'
    /\ lastSpanDrain' = nextSpan'
    /\ IF ok /\ Starts(lb, sb)
       THEN /\ flights' = flights \cup {NewFlight(lb, sb)}
            /\ call' = CallOf(NewFlight(lb, sb), 0, <<>>)
            /\ settled' = "none"
       ELSE /\ flights' = flights
            /\ call' = NoCall
            /\ settled' = "fulfilled"

Flush(lb, sb) ==
    LET ok == canAttemptResult(state, lastFailureTime, now) IN
    /\ canAttempt
    /\ opRet' = IF ok THEN "true" ELSE "false"
    /\ IF ~ok
       THEN /\ logBuffer' = lb
            /\ spanBuffer' = sb
            /\ flights' = flights
            /\ call' = NoCall
            /\ settled' = "fulfilled"
            /\ UNCHANGED <<lastLogDrain, lastSpanDrain>>
       ELSE /\ logBuffer' = <<>>
            /\ spanBuffer' = <<>>
            /\ lastLogDrain' = nextLog'
            /\ lastSpanDrain' = nextSpan'
            /\ IF Starts(lb, sb)
               THEN /\ flights' = flights \cup {NewFlight(lb, sb)}
                    /\ call' = CallOf(NewFlight(lb, sb), 0, <<>>)
                    /\ settled' = "none"
               ELSE /\ flights' = flights
                    /\ call' = NoCall
                    /\ settled' = "fulfilled"

NoFlush(lb, sb) ==
    /\ logBuffer' = lb
    /\ spanBuffer' = sb
    /\ opRet' = "void"
    /\ call' = NoCall
    /\ settled' = "fulfilled"
    /\ UNCHANGED <<cbVars, flights, lastLogDrain, lastSpanDrain>>

\* part_000 54-66: sendLogs(logs) with n logs
AcceptLogs(n) ==
    /\ nextLog' = nextLog + n
    /\ UNCHANGED nextSpan
    /\ LET lb == PushAll(logBuffer, Ids(nextLog, n)) IN
       IF SizeReached(lb) THEN Flush(lb, spanBuffer) ELSE NoFlush(lb, spanBuffer)
    /\ opName' = "sendLogs"
    /\ UNCHANGED opFrom
    /\ done' = NoDone
    /\ hist' = IF n = 1 /\ hist \in {"init", "sendLogs"} THEN "sendLogs" ELSE "mixed"
    /\ UNCHANGED <<threshold, resetMs, now, cfgVars, timer, consecFailures, lostLogs, lostSpans,
                   sentLogs, sentSpans, compVars>>

\* sendLogs, while the model has room for n more items
SendLogs(n) ==
    /\ Room(n)
    /\ AcceptLogs(n)

\* part_000 68-80
SendSpans(n) ==
    /\ Room(n)
    /\ nextSpan' = nextSpan + n
    /\ UNCHANGED nextLog
    /\ LET sb == PushAll(spanBuffer, Ids(nextSpan, n)) IN
       IF SizeReached(sb) THEN Flush(logBuffer, sb) ELSE NoFlush(logBuffer, sb)
    /\ opName' = "sendSpans"
    /\ UNCHANGED opFrom
    /\ done' = NoDone
    /\ hist' = IF n = 1 /\ hist \in {"init", "sendSpans"} THEN "sendSpans" ELSE "mixed"
    /\ UNCHANGED <<threshold, resetMs, now, cfgVars, timer, consecFailures, lostLogs, lostSpans,
                   sentLogs, sentSpans, compVars>>

\* part_000 82-98, called by the application
ManualFlush ==
    /\ UNCHANGED <<nextLog, nextSpan>>
    /\ Flush(logBuffer, spanBuffer)
    /\ opName' = "flush"
    /\ UNCHANGED opFrom
    /\ done' = NoDone
    /\ hist' = "mixed"
    /\ UNCHANGED <<threshold, resetMs, now, cfgVars, timer, consecFailures, lostLogs, lostSpans,
                   sentLogs, sentSpans, compVars>>

\* part_000 51: a tick of the interval timer
TimerFlush ==
    /\ timer
    /\ UNCHANGED <<nextLog, nextSpan>>
    /\ Flush(logBuffer, spanBuffer)
    /\ opName' = "timerFlush"
    /\ UNCHANGED opFrom
    /\ done' = NoDone
    /\ hist' = "mixed"
    /\ UNCHANGED <<threshold, resetMs, now, cfgVars, timer, consecFailures, lostLogs, lostSpans,
                   sentLogs, sentSpans, compVars>>

Destroy_KeepTimer ==
    /\ timer' = timer
    /\ opName' = "destroy"
    /\ opRet' = IF timer THEN "true" ELSE "false"
    /\ UNCHANGED opFrom
    /\ call' = NoCall
    /\ done' = NoDone
    /\ settled' = "none"
    /\ UNCHANGED <<cbVars, now, cfgVars, logBuffer, spanBuffer, flights, nextLog, nextSpan,
                   consecFailures, histVars, compVars>>

Destroy_DropsBuffers ==
    /\ timer' = FALSE
    /\ logBuffer' = <<>>
    /\ spanBuffer' = <<>>
    /\ opName' = "destroy"
    /\ opRet' = IF timer THEN "true" ELSE "false"
    /\ UNCHANGED opFrom
    /\ call' = NoCall
    /\ done' = NoDone
    /\ settled' = "none"
    /\ UNCHANGED <<cbVars, now, cfgVars, flights, nextLog, nextSpan,
                   consecFailures, histVars, compVars>>

\* part_000 131-136; opRet tells whether `if (this.timer)` found a timer
Destroy ==
    /\ timer' = FALSE
    /\ opName' = "destroy"
    /\ opRet' = IF timer THEN "true" ELSE "false"
    /\ UNCHANGED opFrom
    /\ call' = NoCall
    /\ done' = NoDone
    /\ settled' = "none"
    /\ UNCHANGED <<cbVars, now, cfgVars, logBuffer, spanBuffer, flights, nextLog, nextSpan,
                   consecFailures, histVars, compVars>>

EndBatch_StopOnFailure(f, outcome) ==
    /\ done' = [kind |-> f.phase, items |-> CurBatch(f), outcome |-> outcome,
                calls |-> f.calls]
    /\ flights' = (flights \ {f}) \cup (IF outcome = "failed" THEN {} ELSE NextPhase(f))
    /\ call' = IF outcome = "failed" THEN NoCall ELSE NextPhaseCall(f)
    /\ settled' = IF outcome = "failed" \/ NextPhase(f) = {} THEN "fulfilled" ELSE "none"

\* A batch of f ended (delivered or given up): part_000 112 / 125, then 95-97.
EndBatch(f, outcome) ==
    /\ done' = [kind |-> f.phase, items |-> CurBatch(f), outcome |-> outcome,
                calls |-> f.calls]
    /\ flights' = (flights \ {f}) \cup NextPhase(f)
    /\ call' = NextPhaseCall(f)
    /\ settled' = IF NextPhase(f) = {} THEN "fulfilled" ELSE "none"

\* part_000 107-109: the loop goes on to attempt number a, or ends (125)
LoopNext(f, a) ==
    IF LoopContinues(a)
    THEN /\ flights' = (flights \ {f}) \cup
                {[f EXCEPT !.attempt = a, !.wait = "inner", !.wakeAt = 0, !.calls = f.calls + 1]}
         /\ call' = CallOf(f, a, LiveBuffer(f.phase))
         /\ done' = NoDone
         /\ settled' = "none"
         /\ UNCHANGED <<cbVars, consecFailures, lostLogs, lostSpans>>
    ELSE /\ recordFailure
         /\ consecFailures' = consecFailures + 1
         /\ lostLogs' = IF f.phase = "logs" THEN lostLogs \cup Elems(f.logs) ELSE lostLogs
         /\ lostSpans' = IF f.phase = "spans" THEN lostSpans \cup Elems(f.spans) ELSE lostSpans
         /\ EndBatch(f, "failed")
         /\ UNCHANGED <<threshold, resetMs>>

\* The inner transport is an injected Transport (packages/types): each call
\* returns a promise that later resolves or rejects, or throws, as the
\* environment chooses. A synchronous throw is caught by the same try block
\* as a rejection (part_000 108-113).
\* (the `return` of line 112 left out on the last attempt: the loop ends and
\* line 125 runs as well)
InnerResolve_NoReturn(f) ==
    /\ f.wait = "inner"
    /\ failureCount' = 1
    /\ lastFailureTime' = now
    /\ state' = IF 1 >= threshold THEN "OPEN" ELSE "CLOSED"
    /\ consecFailures' = 1
    /\ EndBatch(f, "sent")
    /\ sentLogs' = IF f.phase = "logs" THEN sentLogs \cup Elems(f.logs) ELSE sentLogs
    /\ sentSpans' = IF f.phase = "spans" THEN sentSpans \cup Elems(f.spans) ELSE sentSpans
    /\ opName' = "innerResolve"
    /\ opRet' = "void"
    /\ UNCHANGED opFrom
    /\ UNCHANGED <<threshold, resetMs, now, cfgVars, logBuffer, spanBuffer, timer, nextLog, nextSpan,
                   lastLogDrain, lastSpanDrain, lostLogs, lostSpans, hist, compVars>>

\* part_000 109-112: the promise of the inner transport resolves
InnerResolve(f) ==
    /\ f.wait = "inner"
    /\ recordSuccess
    /\ consecFailures' = 0
    /\ EndBatch(f, "sent")
    /\ sentLogs' = IF f.phase = "logs" THEN sentLogs \cup Elems(f.logs) ELSE sentLogs
    /\ sentSpans' = IF f.phase = "spans" THEN sentSpans \cup Elems(f.spans) ELSE sentSpans
    /\ opName' = "innerResolve"
    /\ opRet' = "void"
    /\ UNCHANGED opFrom
    /\ UNCHANGED <<threshold, resetMs, now, cfgVars, logBuffer, spanBuffer, timer, nextLog, nextSpan,
                   lastLogDrain, lastSpanDrain, lostLogs, lostSpans, hist, compVars>>

\* What the inner transport fails with: an Error, a value that String()
\* converts (a string, a number, a plain object), or a value String() cannot
\* convert and throws a TypeError for (Object.create(null), an object whose
\* toString throws).
Reasons == {"Error", "string", "bare"}

\* part_000 114: error instanceof Error ? error : new Error(String(error))
ToErrorThrows(reason) == reason = "bare"

\* part_000 113-122: attempt f.attempt failed with `reason`. An error thrown
\* inside the catch clause leaves sendWithRetry, then flush() and the
\* sendLogs()/sendSpans() awaiting it, none of which has a handler: their
\* promises reject, and neither line 110 nor line 125 runs for the batch.
Failed(f, reason) ==
    IF ToErrorThrows(reason)
    THEN /\ flights' = flights \ {f}
         /\ call' = NoCall
         /\ done' = [kind |-> f.phase, items |-> CurBatch(f), outcome |-> "thrown",
                     calls |-> f.calls]
         /\ settled' = "rejected"
         /\ UNCHANGED <<cbVars, consecFailures, lostLogs, lostSpans>>
    ELSE IF DelayFollows(f.attempt)
    THEN /\ flights' = (flights \ {f}) \cup
                {[f EXCEPT !.wait = "timer", !.wakeAt = now + BackoffDelay(f.attempt)]}
         /\ call' = NoCall
         /\ done' = NoDone
         /\ settled' = "none"
         /\ UNCHANGED <<cbVars, consecFailures, lostLogs, lostSpans>>
    ELSE LoopNext(f, f.attempt + 1)

\* part_000 109, 113: the promise of the inner transport rejects with `reason`
Rejected(f, reason) ==
    /\ f.wait = "inner"
    /\ Failed(f, reason)
    /\ opName' = "innerReject"
    /\ opRet' = "void"
    /\ UNCHANGED opFrom
    /\ UNCHANGED <<now, cfgVars, logBuffer, spanBuffer, timer, nextLog, nextSpan,
                   lastLogDrain, lastSpanDrain, hist, sentLogs, sentSpans, compVars>>

\* The inner transport rejects with an Error, as a transport built on
\* fetch() does.
InnerReject(f) == Rejected(f, "Error")

\* The inner transport rejects with whatever it pleases.
InnerRejectAny(f) == \E reason \in Reasons : Rejected(f, reason)

\* The call that f made in the last step is still running: nothing else has
\* run since.
JustCalled(f) ==
    /\ f.wait = "inner"
    /\ call.kind = f.phase /\ call.attempt = f.attempt /\ call.items = CurBatch(f)

\* part_000 109, 113: the inner transport throws instead of returning a
\* promise; the catch clause runs before anything else does
InnerThrow(f) ==
    /\ JustCalled(f)
    /\ \E reason \in Reasons : Failed(f, reason)
    /\ opName' = "innerThrow"
    /\ opRet' = "void"
    /\ UNCHANGED opFrom
    /\ UNCHANGED <<now, cfgVars, logBuffer, spanBuffer, timer, nextLog, nextSpan,
                   lastLogDrain, lastSpanDrain, hist, sentLogs, sentSpans, compVars>>

\* part_000 120: the backoff timeout fires, the loop goes on
BackoffElapsed(f) ==
    /\ f.wait = "timer"
    /\ now >= f.wakeAt
    /\ LoopNext(f, f.attempt + 1)
    /\ opName' = "backoffElapsed"
    /\ opRet' = "void"
    /\ UNCHANGED opFrom
    /\ UNCHANGED <<now, cfgVars, logBuffer, spanBuffer, timer, nextLog, nextSpan,
                   lastLogDrain, lastSpanDrain, hist, sentLogs, sentSpans, compVars>>

\* Time passes while something waits for it: a backoff timeout that has not
\* fired, or an OPEN breaker whose reset time has not come. The code reads the
\* clock only to stamp a failure and to compare it with that stamp, so time
\* that passes while nothing waits changes no later step.
Waiting ==
    \/ \E f \in flights : f.wait = "timer" /\ now < f.wakeAt
    \/ state = "OPEN" /\ ~ResetElapsed(lastFailureTime, now)

Elapse ==
    /\ Waiting
    /\ Tick

\* part_000 37-52: the state after construction. The clock starts after the
\* epoch (Date.now() = 0 is explored with the breaker alone, in SpecCB).
Init ==
    /\ state = "CLOSED"
    /\ failureCount = 0
    /\ lastFailureTime = Null
    /\ threshold \in Thresholds
    /\ resetMs = 1
    /\ now = 1
    /\ opName = "new" /\ opRet = "void" /\ opFrom = "CLOSED"
    /\ consecFailures = 0
    /\ logBuffer = <<>> /\ spanBuffer = <<>> /\ timer = TRUE
    /\ batchSize \in BatchSizes
    /\ maxBufferSize \in BufferCaps
    /\ maxRetries \in 0..MaxRetryLimit
    /\ retryDelayMs = 1
    /\ innerHasSendSpans \in BOOLEAN
    /\ flights = {}
    /\ nextLog = 1 /\ nextSpan = 1
    /\ call = NoCall /\ done = NoDone
    /\ lastLogDrain = 1 /\ lastSpanDrain = 1
    /\ lostLogs = {} /\ lostSpans = {}
    /\ sentLogs = {} /\ sentSpans = {}
    /\ settled = "none"
    /\ hist = "init"
    /\ InitComponents

Next ==
    \/ \E n \in 1..MaxItems : SendLogs(n)
    \/ \E n \in 1..MaxItems : SendSpans(n)
    \/ ManualFlush
    \/ TimerFlush
    \/ \E f \in flights : InnerResolve(f)
    \/ \E f \in flights : InnerReject(f)
    \/ \E f \in flights : BackoffElapsed(f)
    \/ Elapse

Spec == Init /\ [][Next]_vars

\* The transport with its whole interface: destroy() as well, and an inner
\* transport that may throw instead of returning a promise.
InitLife ==
    /\ Init
    /\ threshold = 2
    /\ maxBufferSize = 2

NextLife ==
    \/ Next
    \/ Destroy
    \/ \E f \in flights : InnerRejectAny(f)
    \/ \E f \in flights : InnerThrow(f)

SpecLife == InitLife /\ [][NextLife]_vars

\* ------------------------------------------------------------------ Hub
\* The hub works on its own: the rest stays as constructed.
hubFrame == <<cbVars, now, cfgVars, btVars, obsVars, consecFailures, histVars, sm, node, bb, tc, se, scope, con>>

\* ClientOptions: two valid ones and one whose DSN is malformed
Options == {"a", "b", "bad"}

\* new LogtideClient(options): a configuration error fails at construction
ConstructorThrows(o) == o = "bad"

\* The client as constructed: its options, whether close() was called on
\* it, the breadcrumbs it was given and the number of captures it took
NewClient(o) == [options |-> o, closed |-> FALSE, crumbs |-> <<>>, captured |-> 0]

\* (a full buffer turns the new breadcrumb away)
BreadcrumbAdd_DropNewest(buffer, maxSize, b) ==
    IF Len(buffer) >= maxSize /\ buffer # <<>> THEN buffer ELSE Append(buffer, b)

\* breadcrumb-buffer.ts 12-17: BreadcrumbBuffer.add
BreadcrumbAdd(buffer, maxSize, b) ==
    IF Len(buffer) >= maxSize
    THEN (IF buffer = <<>> THEN <<b>> ELSE Append(Tail(buffer), b))
    ELSE Append(buffer, b)

\* Scope.addBreadcrumb (and the client's, on its own scope): the scope keeps
\* a bounded breadcrumb sequence
ScopeAddBreadcrumb(crumbs, b) == BreadcrumbAdd(crumbs, ScopeCapacity, b)

\* hub.ts 29-31
getClient == hub.client

HubOp(name, o, t, ret, threw) ==
    [name |-> name, opts |-> o, target |-> t, ret |-> ret, threw |-> threw]

\* (a second init() that builds a client again)
HubInit_Replace(o) ==
    /\ Len(hub.clients) < MaxClients
    /\ IF ConstructorThrows(o)
       THEN hub' = [hub EXCEPT !.op = HubOp("init", o, hub.client, 0, TRUE)]
       ELSE hub' = [hub EXCEPT !.clients = Append(@, NewClient(o)),
                               !.client = Len(hub.clients) + 1,
                               !.op = HubOp("init", o, hub.client, Len(hub.clients) + 1, FALSE)]
    /\ UNCHANGED hubFrame

\* hub.ts 18-27; op.target is the client held when the call was made
HubInit(o) ==
    /\ hub.client = 0 => Len(hub.clients) < MaxClients
    /\ IF hub.client # 0
       THEN hub' = [hub EXCEPT !.op = HubOp("init", o, hub.client, hub.client, FALSE)]
       ELSE IF ConstructorThrows(o)
       THEN hub' = [hub EXCEPT !.op = HubOp("init", o, 0, 0, TRUE)]
       ELSE hub' = [hub EXCEPT !.clients = Append(@, NewClient(o)),
                               !.client = Len(hub.clients) + 1,
                               !.op = HubOp("init", o, 0, Len(hub.clients) + 1, FALSE)]
    /\ UNCHANGED hubFrame

\* hub.ts 37-39 and 41-43: this.client?.captureError(...) / captureLog(...)
HubCapture(name) ==
    /\ hub.client # 0 => hub.clients[hub.client].captured < MaxCaptures
    /\ IF hub.client = 0
       THEN hub' = [hub EXCEPT !.op = HubOp(name, "none", 0, 0, FALSE)]
       ELSE hub' = [hub EXCEPT !.clients[hub.client].captured = @ + 1,
                               !.op = HubOp(name, "none", hub.client, 0, FALSE)]
    /\ UNCHANGED hubFrame

HubCaptureError == HubCapture("captureError")

HubCaptureLog == HubCapture("captureLog")

\* (the breadcrumb kept for a client only)
HubAddBreadcrumb_ClientOnly ==
    /\ hub.nextCrumb <= MaxCrumbs
    /\ IF hub.client = 0
       THEN hub' = [hub EXCEPT !.nextCrumb = @ + 1,
                               !.op = HubOp("addBreadcrumb", "none", 0, 0, FALSE)]
       ELSE hub' = [hub EXCEPT !.scopeCrumbs = ScopeAddBreadcrumb(@, hub.nextCrumb),
                               !.clients[hub.client].crumbs =
                                    ScopeAddBreadcrumb(@, hub.nextCrumb),
                               !.nextCrumb = @ + 1,
                               !.op = HubOp("addBreadcrumb", "none", hub.client, 0, FALSE)]
    /\ UNCHANGED hubFrame

\* hub.ts 45-48: the global scope takes the breadcrumb, then the client if
\* there is one (breadcrumbs are numbered in the order they are added)
HubAddBreadcrumb ==
    /\ hub.nextCrumb <= MaxCrumbs
    /\ IF hub.client = 0
       THEN hub' = [hub EXCEPT !.scopeCrumbs = ScopeAddBreadcrumb(@, hub.nextCrumb),
                               !.nextCrumb = @ + 1,
                               !.op = HubOp("addBreadcrumb", "none", 0, 0, FALSE)]
       ELSE hub' = [hub EXCEPT !.scopeCrumbs = ScopeAddBreadcrumb(@, hub.nextCrumb),
                               !.clients[hub.client].crumbs =
                                    ScopeAddBreadcrumb(@, hub.nextCrumb),
                               !.nextCrumb = @ + 1,
                               !.op = HubOp("addBreadcrumb", "none", hub.client, 0, FALSE)]
    /\ UNCHANGED hubFrame

\* hub.ts 54-55: close() up to its await: this.client?.close() is called on
\* the client held now, and the call is suspended (on that promise, or on
\* `await undefined` when no client is held)
HubClose ==
    /\ hub.closes < MaxCloses
    /\ IF hub.client = 0
       THEN hub' = [hub EXCEPT !.pending[0] = @ + 1,
                               !.closes = @ + 1,
                               !.op = HubOp("close", "none", 0, 0, FALSE)]
       ELSE hub' = [hub EXCEPT !.clients[hub.client].closed = TRUE,
                               !.pending[hub.client] = @ + 1,
                               !.closes = @ + 1,
                               !.op = HubOp("close", "none", hub.client, 0, FALSE)]
    /\ UNCHANGED hubFrame

\* hub.ts 56: a close() that found client t resumes, clears the field and
\* its promise resolves
HubCloseResume(t) ==
    /\ hub.pending[t] > 0
    /\ hub' = [hub EXCEPT !.pending[t] = @ - 1,
                          !.client = 0,
                          !.op = HubOp("closeResolved", "none", t, hub.client, FALSE)]
    /\ UNCHANGED hubFrame

InitHub ==
    /\ InitCB
    /\ threshold = 1
    /\ resetMs = 1

NextHub ==
    \/ \E o \in Options : HubInit(o)
    \/ HubCaptureError
    \/ HubCaptureLog
    \/ HubAddBreadcrumb
    \/ HubClose
    \/ \E t \in 0..MaxClients : HubCloseResume(t)

SpecHub == InitHub /\ [][NextHub]_vars

\* ---------------------------------------------------------- SpanManager
smFrame == <<cbVars, cfgVars, btVars, obsVars, consecFailures, histVars, hub, node, bb, tc, se, scope, con>>

\* SpanStatus, and "omitted" for a call that passes no status
StatusArgs == {"ok", "error", "unset", "omitted"}

\* breadcrumb-buffer.ts 60: status: SpanStatus = 'ok'
StatusGiven(status) == IF status = "omitted" THEN "ok" ELSE status

SmOp(name, id, status, ret) ==
    [name |-> name, id |-> id, status |-> status, ret |-> ret, threw |-> FALSE]

\* breadcrumb-buffer.ts 45-58
startSpan ==
    /\ Len(sm.spans) < MaxSpans
    /\ LET id == Len(sm.spans) + 1 IN
       sm' = [sm EXCEPT !.spans = Append(@, [status |-> "unset", startTime |-> now,
                                             endTime |-> Null]),
                        !.activeSpans = @ \cup {id},
                        !.op = SmOp("startSpan", id, "none", id)]
    /\ UNCHANGED <<now, smFrame>>

\* (line 66, the delete, left out)
finishSpan_KeepOpen(spanId, status) ==
    /\ IF spanId \notin sm.activeSpans
       THEN sm' = [sm EXCEPT !.op = SmOp("finishSpan", spanId, status, 0)]
       ELSE sm' = [sm EXCEPT !.spans[spanId].endTime = now,
                             !.spans[spanId].status = StatusGiven(status),
                             !.op = SmOp("finishSpan", spanId, status, spanId)]
    /\ UNCHANGED <<now, smFrame>>

\* breadcrumb-buffer.ts 60-68
finishSpan(spanId, status) ==
    /\ IF spanId \notin sm.activeSpans
       THEN sm' = [sm EXCEPT !.op = SmOp("finishSpan", spanId, status, 0)]
       ELSE sm' = [sm EXCEPT !.spans[spanId].endTime = now,
                             !.spans[spanId].status = StatusGiven(status),
                             !.activeSpans = @ \ {spanId},
                             !.op = SmOp("finishSpan", spanId, status, spanId)]
    /\ UNCHANGED <<now, smFrame>>

InitSpans ==
    /\ InitCB
    /\ threshold = 1
    /\ resetMs = 1

NextSpans ==
    \/ startSpan
    \/ \E spanId \in 1..MaxSpans : \E status \in StatusArgs : finishSpan(spanId, status)
    \/ Tick

SpecSpans == InitSpans /\ [][NextSpans]_vars

\* ================================================================ claims
\* The first maxBufferSize items among those offered from number a up to
\* (not including) number b.
FirstOffered(a, b) == Ids(a, Min(maxBufferSize, b - a))

Increasing(s) == \A i \in 1..Len(s) : \A j \in 1..Len(s) : i < j => s[i] < s[j]

\* The items a suspended flush() still has to deliver.
InFlightLogs == UNION {Elems(f.logs) : f \in {g \in flights : g.phase = "logs"}}
InFlightSpans == UNION {Elems(f.spans) : f \in {g \in flights : g.phase = "spans"}}

\* C1: a batch whose every attempt failed was handed to the inner transport
\* exactly maxRetries+1 times; giving it up calls recordFailure() exactly once
\* (the failure counter grows by one at that step and at no failed attempt
\* before it), and its items are in no buffer, in no batch in flight and in
\* no later call to the inner transport.
C1_GivenUpState ==
    /\ \A f \in flights : f.calls <= maxRetries + 1
    /\ (done.kind # "none" /\ done.outcome = "failed") => done.calls = maxRetries + 1
    /\ lostLogs \cap (Elems(logBuffer) \cup InFlightLogs) = {}
    /\ lostSpans \cap (Elems(spanBuffer) \cup InFlightSpans) = {}
    /\ call.kind = "logs" => Elems(call.items) \cap lostLogs = {}
    /\ call.kind = "spans" => Elems(call.items) \cap lostSpans = {}

C1_GivenUpStep ==
    /\ (done'.kind # "none" /\ done'.outcome = "failed")
           => (failureCount' = failureCount + 1 /\ lastFailureTime' = now)
    /\ (opName' \in {"innerReject", "backoffElapsed"} /\ done'.kind = "none")
           => UNCHANGED <<failureCount, state, lastFailureTime>>

C2_First(h, next, buf, kind) ==
    /\ (hist = h /\ next - 1 < batchSize) =>
           (flights = {} /\ call = NoCall /\ buf = Ids(1, next - 1))
    /\ (hist = h /\ next - 1 = batchSize) =>
           /\ buf = <<>>
           /\ Cardinality(flights) <= 1
           /\ \A f \in flights : /\ CurBatch(f) = Ids(1, batchSize)
                                 /\ f.phase = kind
                                 /\ f.calls = f.attempt + 1
                                 /\ f.calls <= maxRetries + 1
           /\ call.kind # "none" => (call.kind = kind /\ call.items = Ids(1, batchSize))
           /\ opName = h => (call.kind = kind /\ call.attempt = 0 /\ Cardinality(flights) = 1)

C2_SizeTrigger ==
    batchSize <= maxBufferSize =>
        /\ C2_First("sendLogs", nextLog, logBuffer, "logs")
        /\ innerHasSendSpans => C2_First("sendSpans", nextSpan, spanBuffer, "spans")

C2_Witness ==
    /\ hist = "sendLogs" /\ batchSize = 2 /\ nextLog - 1 = batchSize
    /\ opName = "sendLogs" /\ call.kind = "logs" /\ call.items = <<1, 2>>

\* C2 (as stated): ... the batchSize-th append invokes inner.sendLogs
\* exactly once (breaker CLOSED, no manual flush, no timer tick).
C2_ExactlyOnce ==
    (batchSize <= maxBufferSize /\ state = "CLOSED" /\ hist = "sendLogs"
        /\ nextLog - 1 = batchSize)
    => (\A f \in flights : f.calls = 1) /\ (call.kind # "none" => call.attempt = 0)

\* C3: an item offered to a full buffer is discarded and the buffer keeps its
\* contents and order: each buffer always holds the first maxBufferSize items
\* offered since it was last drained, and the batch a flush drains (and
\* delivers) is exactly the first maxBufferSize items offered since the drain
\* before it.
C3_DropNewest ==
    /\ logBuffer = FirstOffered(lastLogDrain, nextLog)
    /\ spanBuffer = FirstOffered(lastSpanDrain, nextSpan)
    /\ \A f \in flights : /\ f.logs = FirstOffered(f.logFrom, f.logMark)
                          /\ f.spans = FirstOffered(f.spanFrom, f.spanMark)
    /\ (call.kind # "none" /\ call.attempt = 0) =>
           \E f \in flights :
               /\ f.phase = call.kind
               /\ call.items = IF call.kind = "logs"
                               THEN FirstOffered(f.logFrom, f.logMark)
                               ELSE FirstOffered(f.spanFrom, f.spanMark)

C3_Witness ==
    /\ opName = "flush" /\ call.kind = "logs"
    /\ \E f \in flights : f.logMark - f.logFrom > maxBufferSize /\ call.items = f.logs

\* C4: the log buffer and the span buffer each hold at most maxBufferSize
\* items, in every reachable state.
C4_BuffersCapped ==
    /\ Len(logBuffer) <= maxBufferSize
    /\ Len(spanBuffer) <= maxBufferSize

C4_Witness ==
    /\ opName = "sendLogs"
    /\ Len(logBuffer) = maxBufferSize
    /\ nextLog - lastLogDrain > maxBufferSize

IsPrefix(s, t) == Len(s) <= Len(t) /\ \A i \in 1..Len(s) : s[i] = t[i]

\* C5: a flush() that the circuit breaker denies leaves both buffers as they
\* were, starts nothing and makes no call to the inner transport (a denied
\* flush made by sendLogs/sendSpans leaves what was queued, in order, in
\* front of what the call appended).
C5_DeniedFlushStep ==
    /\ (opName' \in {"flush", "timerFlush"} /\ opRet' = "false") =>
           /\ logBuffer' = logBuffer
           /\ spanBuffer' = spanBuffer
           /\ flights' = flights
           /\ call' = NoCall
    /\ (opName' \in {"sendLogs", "sendSpans"} /\ opRet' = "false") =>
           /\ IsPrefix(logBuffer, logBuffer')
           /\ IsPrefix(spanBuffer, spanBuffer')
           /\ flights' = flights
           /\ call' = NoCall

C5_DeniedFlushKeepsBuffers == [][C5_DeniedFlushStep]_vars

C5_Witness ==
    /\ opName = "flush" /\ opRet = "false"
    /\ logBuffer # <<>>
    /\ state = "OPEN"

\* C10: every call to the inner transport carries exactly the batch its
\* flush() drained when it started, in append order; the items offered after
\* that drain are in the buffer or in a later batch, never in this one.
C10_AtomicDrain ==
    /\ call.kind # "none" =>
           \E f \in flights : /\ f.wait = "inner"
                              /\ f.phase = call.kind
                              /\ f.attempt = call.attempt
                              /\ call.items = CurBatch(f)
    /\ \A f \in flights :
           /\ Increasing(f.logs) /\ Increasing(f.spans)
           /\ \A x \in Elems(f.logs) : x < f.logMark
           /\ \A x \in Elems(f.spans) : x < f.spanMark
           /\ \A x \in Elems(logBuffer) : x >= f.logMark
           /\ \A x \in Elems(spanBuffer) : x >= f.spanMark
           /\ \A g \in flights : g # f =>
                  /\ Elems(f.logs) \cap Elems(g.logs) = {}
                  /\ Elems(f.spans) \cap Elems(g.spans) = {}
    /\ Increasing(logBuffer) /\ Increasing(spanBuffer)

C10_Witness ==
    /\ call.kind = "logs" /\ call.attempt = 1
    /\ logBuffer # <<>>
    /\ \E f \in flights : f.wait = "inner" /\ f.attempt = 1 /\ f.logs = call.items
                          /\ \A x \in Elems(logBuffer) : x >= f.logMark

\* ------------------------------------------------ claims on the breaker
\* C6: starting CLOSED, with fewer than threshold recordFailure() calls since
\* the last recordSuccess() the state is CLOSED and canAttempt() returns
\* true; recordFailure() leaves the state OPEN exactly when that number has
\* reached threshold; while OPEN and before resetMs has elapsed since the
\* last failure, canAttempt() returns false.
C6_OpensAtThreshold ==
    /\ consecFailures < threshold =>
           /\ state = "CLOSED"
           /\ canAttemptResult(state, lastFailureTime, now)
           /\ opName = "canAttempt" => opRet = "true"
    /\ opName = "recordFailure" => (state = "OPEN" <=> consecFailures >= threshold)
    /\ (state = "OPEN" /\ now - lastFailureTime < resetMs) =>
           /\ ~canAttemptResult(state, lastFailureTime, now)
           /\ opName = "canAttempt" => opRet = "false"

C6_Witness ==
    /\ opName = "canAttempt" /\ opRet = "false" /\ state = "OPEN"
    /\ threshold = 2 /\ consecFailures = 2 /\ failureCount = 2

\* C7 (as stated): canAttempt() in state OPEN returns true and moves to
\* HALF_OPEN if and only if at least resetMs has elapsed since the last
\* recorded failure; otherwise it returns false and the state stays OPEN.
C7_ProbeIffElapsed ==
    (opName = "canAttempt" /\ opFrom = "OPEN") =>
        IF now - lastFailureTime >= resetMs
        THEN opRet = "true" /\ state = "HALF_OPEN"
        ELSE opRet = "false" /\ state = "OPEN"

\* C8: recordSuccess() in state HALF_OPEN leaves the state CLOSED and the
\* failure counter 0; a CLOSED breaker's counter is the number of failures
\* since the last success, so threshold further failures are needed to open.
C8_SuccessCloses ==
    /\ (opName = "recordSuccess" /\ opFrom = "HALF_OPEN") =>
           (state = "CLOSED" /\ failureCount = 0 /\ consecFailures = 0)
    /\ state = "CLOSED" => (failureCount = consecFailures /\ failureCount < threshold)

C8_Witness ==
    /\ opName = "recordSuccess" /\ opFrom = "HALF_OPEN"
    /\ state = "CLOSED" /\ threshold = 2

\* C9: recordFailure() in state HALF_OPEN leaves the state OPEN, whatever
\* the threshold, and stamps the failure with the current time: canAttempt()
\* is refused until resetMs after that failure.
C9_HalfOpenFailureReopens ==
    /\ (opName = "recordFailure" /\ opFrom = "HALF_OPEN") =>
           /\ state = "OPEN"
           /\ lastFailureTime = now
           /\ ~canAttemptResult(state, lastFailureTime, now)
    /\ (state = "OPEN" /\ canAttemptResult(state, lastFailureTime, now)) =>
           now - lastFailureTime >= resetMs

C9_Witness ==
    /\ opName = "recordFailure" /\ opFrom = "HALF_OPEN"
    /\ state = "OPEN" /\ threshold = 2 /\ lastFailureTime = now

\* -------------------------------------------- claims on one flush()
\* The flush() call a flight belongs to, named by the drains that bound it.
FlushOf(f) == <<f.logFrom, f.logMark, f.spanFrom, f.spanMark>>

\* C11: when the log batch of a flush() that also drained spans ends, sent
\* or given up alike, the same step makes the first attempt on exactly the
\* spans that flush() drained (inner.sendSpans present); and whatever happens
\* to one batch, the log batch and the span batch of a flush() stay the
\* arrays it drained.
C11_BothBatchesStep ==
    /\ \A f \in flights :
           (f.phase = "logs" /\ f.spans # <<>> /\ innerHasSendSpans
               /\ done'.kind = "logs" /\ done'.items = f.logs)
           => /\ done'.outcome \in {"sent", "failed"}
              /\ call' = [kind |-> "spans", items |-> f.spans, attempt |-> 0]
              /\ \E g \in flights' : /\ FlushOf(g) = FlushOf(f)
                                     /\ g.phase = "spans" /\ g.wait = "inner"
                                     /\ g.attempt = 0
    /\ \A f \in flights : \A g \in flights' :
           FlushOf(g) = FlushOf(f) => (g.logs = f.logs /\ g.spans = f.spans)
    /\ (call'.kind # "none")
           => \E g \in flights' : /\ g.phase = call'.kind
                                  /\ call'.items = (IF call'.kind = "logs" THEN g.logs ELSE g.spans)

C12_OneOutcomeState ==
    /\ sentLogs \cap lostLogs = {}
    /\ sentSpans \cap lostSpans = {}
    /\ sentLogs \cap (Elems(logBuffer) \cup InFlightLogs) = {}
    /\ sentSpans \cap (Elems(spanBuffer) \cup InFlightSpans) = {}
    /\ call.kind = "logs" => Elems(call.items) \cap sentLogs = {}
    /\ call.kind = "spans" => Elems(call.items) \cap sentSpans = {}

C12_OneOutcomeStep ==
    /\ (done'.kind # "none" /\ done'.outcome = "sent") =>
           /\ \E f \in flights : /\ f.wait = "inner"
                                 /\ f.phase = done'.kind
                                 /\ CurBatch(f) = done'.items
                                 /\ done'.calls = f.calls
                                 /\ done'.calls = f.attempt + 1
           /\ failureCount' = 0
           /\ state' = "CLOSED"
           /\ lastFailureTime' = lastFailureTime
           /\ Elems(done'.items) \cap (IF done'.kind = "logs" THEN sentLogs ELSE sentSpans) = {}
    /\ (failureCount' # failureCount \/ lastFailureTime' # lastFailureTime)
           => done'.kind # "none"
    /\ done'.kind = "none" => UNCHANGED <<sentLogs, sentSpans, lostLogs, lostSpans>>
    /\ done'.kind = "logs" =>
           /\ (sentLogs' \cup lostLogs') \ (sentLogs \cup lostLogs) = Elems(done'.items)
           /\ UNCHANGED <<sentSpans, lostSpans>>
    /\ done'.kind = "spans" =>
           /\ (sentSpans' \cup lostSpans') \ (sentSpans \cup lostSpans) = Elems(done'.items)
           /\ UNCHANGED <<sentLogs, lostLogs>>
    /\ \A f \in flights :
           (\A g \in flights' : ~(FlushOf(g) = FlushOf(f) /\ g.phase = f.phase))
           => (done'.kind = f.phase /\ done'.items = CurBatch(f))

C14_NeverRejects ==
    /\ settled # "rejected"
    /\ done.outcome # "thrown"

\* C15: a tick of the interval timer happens only while the timer is set, and
\* then runs flush() (the breaker is asked, and the buffers are drained if it
\* agrees); when destroy() has returned the timer is cleared, and it is never
\* set again, so no tick runs flush() any more; a destroy() that finds no
\* timer changes nothing.
C15_TimerState ==
    /\ opName = "destroy" => ~timer
    /\ timer <=> ENABLED TimerFlush

C15_TimerStep ==
    /\ opName' = "timerFlush" =>
           /\ timer
           /\ opRet' = (IF canAttemptResult(state, lastFailureTime, now) THEN "true" ELSE "false")
           /\ opRet' = "true" => (logBuffer' = <<>> /\ spanBuffer' = <<>>)
    /\ ~timer => ~timer'
    /\ (opName' = "destroy" /\ ~timer) =>
           UNCHANGED <<cbVars, cfgVars, btVars, histVars, consecFailures, now>>

C15_DestroyStopsTimer == [](C15_TimerState) /\ [][C15_TimerStep]_vars

C15_Witness ==
    /\ opName = "destroy" /\ opRet = "false" /\ ~timer
    /\ logBuffer # <<>> /\ flights # {}

\* C16 (as amended): destroy() itself drains no buffer, calls the inner
\* transport not at all and leaves the batches in flight as they are; after
\* it no timer tick starts a send. A sendLogs()/sendSpans() that reaches
\* batchSize and an explicit flush() still drain and send: the flush() calls
\* begun after destroy() are theirs alone.
NewFlushes == {g \in flights' : \A f \in flights : FlushOf(f) # FlushOf(g)}

C16_DestroyStep ==
    /\ opName' = "destroy" =>
           /\ logBuffer' = logBuffer /\ spanBuffer' = spanBuffer
           /\ call' = NoCall
           /\ flights' = flights
    /\ (~timer /\ NewFlushes # {}) => opName' \in {"sendLogs", "sendSpans", "flush"}
    /\ (~timer /\ opName' \in {"sendLogs", "sendSpans", "flush"} /\ opRet' = "true"
            /\ call'.kind # "none")
           => (NewFlushes # {} /\ call'.attempt = 0)

C16_DestroySendsNothing == [][C16_DestroyStep]_vars

C16_Witness ==
    /\ ~timer /\ opName = "sendLogs" /\ call.kind = "logs" /\ call.attempt = 0
    /\ \E f \in flights : f.phase = "logs" /\ f.logs = call.items

\* C16 (as stated): ... once destroy() has returned the BatchTransport starts
\* no new send to the inner transport (a batch already in flight is not
\* cancelled).
C16_NoSendStep ==
    /\ opName' = "destroy" =>
           /\ logBuffer' = logBuffer /\ spanBuffer' = spanBuffer
           /\ call' = NoCall
           /\ flights' = flights
    /\ ~timer => NewFlushes = {}

C16_NoSendAfterDestroy == [][C16_NoSendStep]_vars

\* ------------------------------------------------------ claims on the Hub
\* C17: init() called while a client is held returns that client, builds
\* none and leaves the held client and every client object as they were,
\* whatever the options (malformed ones included); while no close() has been
\* called, any number of init() calls have built at most one client, the one
\* the hub holds.
C17_InitState ==
    /\ hub.client \in 0..Len(hub.clients)
    /\ hub.closes = 0 =>
           /\ Len(hub.clients) <= 1
           /\ hub.client = Len(hub.clients)

C17_InitStep ==
    (hub'.op.name = "init" /\ hub'.op.target # 0) =>
        /\ hub'.op.ret = hub'.op.target
        /\ ~hub'.op.threw
        /\ hub'.client = hub'.op.target
        /\ hub'.clients = hub.clients
        /\ hub.client # 0 => hub'.client = hub.client

C17_InitIdempotent == [](C17_InitState) /\ [][C17_InitStep]_vars

C17_Witness ==
    /\ hub.op.name = "init" /\ hub.op.target = 1 /\ hub.op.ret = 1
    /\ hub.op.opts = "bad" /\ hub.clients[1].options = "a"
    /\ hub.client = 1 /\ hub.closes = 0

\* C18 (as amended): with no client held, captureError() and captureLog()
\* throw nothing and change nothing; addBreadcrumb() throws nothing, leaves
\* the client reference null and builds no client, and the default scope
\* takes the breadcrumb as its newest one.
C18_NoClientStep ==
    /\ (hub'.op.name \in {"captureError", "captureLog"} /\ hub.client = 0) =>
           /\ ~hub'.op.threw
           /\ hub'.client = 0
           /\ hub'.clients = hub.clients
           /\ hub'.scopeCrumbs = hub.scopeCrumbs
    /\ (hub'.nextCrumb # hub.nextCrumb /\ hub.client = 0) =>
           /\ hub'.op.name = "addBreadcrumb"
           /\ ~hub'.op.threw
           /\ hub'.client = 0
           /\ hub'.clients = hub.clients
           /\ hub'.scopeCrumbs # <<>>
           /\ hub'.scopeCrumbs[Len(hub'.scopeCrumbs)] = hub.nextCrumb
           /\ Len(hub'.scopeCrumbs) <= ScopeCapacity

C18_NoClientNoOps == [][C18_NoClientStep]_vars

C18_Witness ==
    /\ hub.op.name = "addBreadcrumb" /\ hub.op.target = 0 /\ hub.client = 0
    /\ hub.clients = <<>>
    /\ hub.scopeCrumbs = <<2>>

\* C18 (as stated): with no client held, captureError, captureLog and
\* addBreadcrumb never throw and change no state, neither the client
\* reference nor the default scope, its breadcrumbs included.
C18_AllNoOpsStep ==
    (hub'.op.name \in {"captureError", "captureLog", "addBreadcrumb"} /\ hub.client = 0) =>
        /\ ~hub'.op.threw
        /\ hub'.client = 0
        /\ hub'.clients = hub.clients
        /\ hub'.scopeCrumbs = hub.scopeCrumbs

C18_AllNoOps == [][C18_AllNoOpsStep]_vars

\* C19 (as stated): when a close() has resolved getClient() is null; an
\* init() made while no client is held builds a new client, distinct from
\* every client built (and closed) before; a close() called while no client
\* is held resolves without effect.
C19_ResolvedState == hub.op.name = "closeResolved" => getClient = 0

C19_InitAfterCloseStep ==
    (hub'.op.name = "init" /\ hub.client = 0 /\ hub'.client # 0) =>
        /\ hub'.client = Len(hub.clients) + 1
        /\ hub'.op.ret = hub'.client
        /\ ~hub'.clients[hub'.client].closed
        /\ \A i \in 1..Len(hub.clients) : hub'.clients[i] = hub.clients[i]

C19_NoClientCloseStep ==
    (hub'.pending[0] < hub.pending[0]) =>
        /\ hub'.client = hub.client
        /\ hub'.clients = hub.clients
        /\ hub'.scopeCrumbs = hub.scopeCrumbs

C19_CloseThenInit ==
    /\ [](C19_ResolvedState)
    /\ [][C19_InitAfterCloseStep]_vars
    /\ [][C19_NoClientCloseStep]_vars

\* ---------------------------------------------- claims on the SpanManager
\* C20: finishSpan(id, status) on an open span returns that span, stamped
\* with the current time and given the status (ok when none is passed), and
\* takes it out of the open set; on an id that is not open it returns
\* undefined, throws nothing and changes neither the open set nor any span; a
\* finished span is never open again and never changes again.
C20_FinishState ==
    \A i \in 1..Len(sm.spans) :
        IF i \in sm.activeSpans
        THEN sm.spans[i].endTime = Null /\ sm.spans[i].status = "unset"
        ELSE sm.spans[i].endTime # Null /\ sm.spans[i].status # "omitted"

C20_FinishStep ==
    /\ (sm' # sm /\ sm'.op.name = "finishSpan" /\ sm'.op.id \in sm.activeSpans) =>
           /\ sm'.op.ret = sm'.op.id
           /\ ~sm'.op.threw
           /\ sm'.spans[sm'.op.id].endTime = now
           /\ sm'.spans[sm'.op.id].status =
                  (IF sm'.op.status = "omitted" THEN "ok" ELSE sm'.op.status)
           /\ sm'.spans[sm'.op.id].startTime = sm.spans[sm'.op.id].startTime
           /\ sm'.activeSpans = sm.activeSpans \ {sm'.op.id}
    /\ (sm'.op # sm.op /\ sm'.op.name = "finishSpan" /\ sm'.op.id \notin sm.activeSpans) =>
           /\ sm'.op.ret = 0
           /\ ~sm'.op.threw
           /\ sm'.activeSpans = sm.activeSpans
           /\ sm'.spans = sm.spans
    /\ \A i \in 1..Len(sm.spans) :
           sm.spans[i].endTime # Null =>
               (sm'.spans[i] = sm.spans[i] /\ i \notin sm'.activeSpans)

C20_ClosedOnce == [](C20_FinishState) /\ [][C20_FinishStep]_vars

C20_Witness ==
    /\ sm.op.name = "finishSpan" /\ sm.op.ret = 0 /\ sm.op.id = 1 /\ sm.op.status = "ok"
    /\ Len(sm.spans) >= 1 /\ sm.spans[1].status = "error"
    /\ sm.spans[1].endTime # Null /\ sm.spans[1].endTime < now
    /\ 1 \notin sm.activeSpans


\* -------------------------------------------------- node LogTideClient
\* The node client works on its own clock readings and its own breaker; the
\* rest stays as constructed.
nodeFrame == <<cbVars, cfgVars, btVars, obsVars, consecFailures, histVars, hub, sm, bb, tc, se, scope, con>>

MaxNodeRetries == 2
MaxNodeDelayMs == 2
MaxTrips == 1

\* node/src/index.ts 380-391: the defaults of the constructor
DefaultBatchSize == 100
DefaultMaxBufferSize == 10000
DefaultMaxRetries == 3
DefaultRetryDelayMs == 1000
DefaultThreshold == 5
DefaultResetMs == 30000

\* JavaScript `v || d` on a `number | undefined` (Null is undefined)
OrDefault(v, d) == IF Truthy(v) THEN v ELSE d

\* LogTideClientOptions, the numeric ones; an option left out is Null
NodeOptions ==
    [batchSize : {1, 2}, maxBufferSize : {2},
     maxRetries : {Null} \cup 0..MaxNodeRetries,
     retryDelayMs : {Null} \cup 0..MaxNodeDelayMs,
     circuitBreakerThreshold : {2}, circuitBreakerResetMs : {1}]

\* node/src/index.ts 376-402: new LogTideClient(options)
LogTideClient(o) ==
    [NoNode EXCEPT
        !.active = TRUE,
        !.timer = TRUE,
        !.batchSize = OrDefault(o.batchSize, DefaultBatchSize),
        !.maxBufferSize = OrDefault(o.maxBufferSize, DefaultMaxBufferSize),
        !.maxRetries = OrDefault(o.maxRetries, DefaultMaxRetries),
        !.configuredRetries = o.maxRetries,
        !.retryDelayMs = OrDefault(o.retryDelayMs, DefaultRetryDelayMs),
        !.threshold = OrDefault(o.circuitBreakerThreshold, DefaultThreshold),
        !.resetMs = OrDefault(o.circuitBreakerResetMs, DefaultResetMs),
        !.op = [NoNodeOp EXCEPT !.name = "new"]]

\* node/src/index.ts 145-160: CircuitBreaker.canAttempt, its result ...
NodeCanAttempt(n, t) ==
    \/ n.state = "CLOSED"
    \/ n.state = "HALF_OPEN"
    \/ Truthy(n.lastFailureTime) /\ t - n.lastFailureTime >= n.resetMs

\* ... and the breaker after it (151)
NodeAfterCanAttempt(n, t) ==
    IF n.state = "OPEN" /\ NodeCanAttempt(n, t) THEN [n EXCEPT !.state = "HALF_OPEN"] ELSE n

\* node/src/index.ts 132-135
NodeRecordSuccess(n) == [n EXCEPT !.failureCount = 0, !.state = "CLOSED"]

\* node/src/index.ts 137-144
NodeRecordFailure(n, t) ==
    [n EXCEPT !.failureCount = @ + 1,
              !.lastFailureTime = t,
              !.state = IF n.failureCount + 1 >= n.threshold THEN "OPEN" ELSE @]

\* node/src/index.ts 799-818: flush() up to its first await
NodeFlush(n, t) ==
    IF n.buffer = <<>> THEN n
    ELSE IF ~NodeCanAttempt(n, t) THEN [n EXCEPT !.circuitBreakerTrips = @ + 1]
    ELSE [NodeAfterCanAttempt(n, t) EXCEPT
            !.buffer = <<>>,
            !.flights = @ \cup {[logs |-> n.buffer, attempt |-> 0, wait |-> "fetch",
                                 wakeAt |-> 0, calls |-> 1]}]

\* node/src/index.ts 858
NodeBackoffDelay(n, attempt) == n.retryDelayMs * Pow2(attempt)

\* node/src/index.ts 1026: the flush() of f returns; a close() awaiting it
\* resolves
NodeSettle(n, f) ==
    IF n.closing = "pending" /\ n.closeBatch = f.logs
    THEN [n EXCEPT !.closing = "resolved"]
    ELSE n

\* node/src/index.ts 817, 870-872: the loop goes on to attempt a of f, or
\* ends: the batch is dropped
NodeLoopNext(n, f, a, t) ==
    IF a <= n.maxRetries
    THEN [n EXCEPT !.flights = (@ \ {f}) \cup
                     {[f EXCEPT !.attempt = a, !.wait = "fetch", !.wakeAt = 0,
                                !.calls = @ + 1]}]
    ELSE [NodeSettle(NodeRecordFailure(n, t), f) EXCEPT
             !.logsDropped = @ + Len(f.logs),
             !.flights = @ \ {f}]

NodeOp(n, name, delay, ret) ==
    /\ node' = [n EXCEPT !.op = [name |-> name, delay |-> delay, ret |-> ret]]
    /\ UNCHANGED <<now, nodeFrame>>

\* A flush is called while a skipped flush can still be counted.
CanFlush == node.active /\ node.circuitBreakerTrips < MaxTrips

\* (the check of lines 726-732 left out)
NodeLog_NoCap ==
    /\ node.active
    /\ node.nextLog <= MaxItems
    /\ node.circuitBreakerTrips < MaxTrips
    /\ LET taken == [node EXCEPT !.nextLog = @ + 1]
           pushed == [taken EXCEPT !.buffer = Append(@, node.nextLog)]
       IN  IF Len(pushed.buffer) >= node.batchSize
           THEN NodeOp(NodeFlush(pushed, now), "log", Null, "flushed")
           ELSE NodeOp(pushed, "log", Null, "buffered")

\* node/src/index.ts 724-759: log(entry); the entry is named by its number
NodeLog ==
    /\ node.active
    /\ node.nextLog <= MaxItems
    /\ node.circuitBreakerTrips < MaxTrips
    /\ LET taken == [node EXCEPT !.nextLog = @ + 1]
           pushed == [taken EXCEPT !.buffer = Append(@, node.nextLog)]
       IN  IF Len(node.buffer) >= node.maxBufferSize
           THEN NodeOp([taken EXCEPT !.logsDropped = @ + 1], "log", Null, "dropped")
           ELSE IF Len(pushed.buffer) >= node.batchSize
           THEN NodeOp(NodeFlush(pushed, now), "log", Null, "flushed")
           ELSE NodeOp(pushed, "log", Null, "buffered")

\* node/src/index.ts 799: flush() called by the application
NodeManualFlush ==
    /\ CanFlush
    /\ NodeOp(NodeFlush(node, now), "flush", Null, "void")

\* node/src/index.ts 718-722: the interval timer fires
NodeTimerFlush ==
    /\ CanFlush
    /\ node.timer
    /\ NodeOp(NodeFlush(node, now), "timerFlush", Null, "void")

\* node/src/index.ts 1020-1027: close(); it resolves when its flush() has
\* returned, at once if that flush() started no request
NodeClose ==
    /\ CanFlush
    /\ node.timer
    /\ node.closing = "none"
    /\ LET flushed == NodeFlush([node EXCEPT !.timer = FALSE], now)
       IN  NodeOp([flushed EXCEPT
                      !.closeBatch = node.buffer,
                      !.closing = IF flushed.flights = node.flights
                                  THEN "resolved" ELSE "pending"],
                  "close", Null, "void")

\* node/src/index.ts 819-850: the request succeeded with an ok response
NodeFetchOk(f) ==
    /\ f.wait = "fetch"
    /\ NodeOp([NodeSettle(NodeRecordSuccess(node), f) EXCEPT
                  !.logsSent = @ + Len(f.logs),
                  !.flights = @ \ {f}],
              "fetchOk", Null, "void")

\* node/src/index.ts 852-872: the request failed (fetch rejected, or the
\* response was not ok and line 830 threw)
NodeFetchFail(f) ==
    /\ f.wait = "fetch"
    /\ LET counted == [node EXCEPT !.errors = @ + 1]
           delay == NodeBackoffDelay(node, f.attempt)
       IN  IF f.attempt < node.maxRetries
           THEN NodeOp([counted EXCEPT
                           !.retries = @ + 1,
                           !.flights = (@ \ {f}) \cup
                               {[f EXCEPT !.wait = "sleep", !.wakeAt = now + delay]}],
                       "fetchFail", delay, "sleep")
           ELSE NodeOp(NodeLoopNext(counted, f, f.attempt + 1, now),
                       "fetchFail", Null, "dropped")

\* node/src/index.ts 865, 878-880: the timeout of sleep() fires
NodeSleepDone(f) ==
    /\ f.wait = "sleep"
    /\ now >= f.wakeAt
    /\ NodeOp(NodeLoopNext(node, f, f.attempt + 1, now), "sleepDone", Null, "void")

\* ------------------------------------------------------- retry / backoff
\* The times something waits for: a backoff timeout, or the reset time of an
\* OPEN breaker.
Deadlines ==
    {f.wakeAt : f \in {g \in flights : g.wait = "timer"}}
      \cup {f.wakeAt : f \in {g \in node.flights : g.wait = "sleep"}}
      \cup (IF state = "OPEN" /\ Truthy(lastFailureTime)
            THEN {lastFailureTime + resetMs} ELSE {})
      \cup (IF node.state = "OPEN" /\ Truthy(node.lastFailureTime)
            THEN {node.lastFailureTime + node.resetMs} ELSE {})

\* Time passes up to the next of them.
Advance ==
    /\ \E d \in Deadlines : d > now
    /\ now' = CHOOSE d \in Deadlines : d > now /\ \A e \in Deadlines : e > now => d <= e
    /\ opName' = "advance"
    /\ opRet' = "void"
    /\ opFrom' = state
    /\ call' = NoCall /\ done' = NoDone /\ settled' = "none"
    /\ UNCHANGED <<cbVars, consecFailures, cfgVars, btVars, histVars, compVars>>

MaxBatchRetries == 2
MaxBatchDelayMs == 2

\* Either a BatchTransport (part_000 37-52) with its retry options, or a
\* node LogTideClient (node/src/index.ts 376-402) with its own.
InitRetry ==
    /\ state = "CLOSED"
    /\ failureCount = 0
    /\ lastFailureTime = Null
    /\ threshold = 2
    /\ resetMs = 1
    /\ now = 1
    /\ opName = "new" /\ opRet = "void" /\ opFrom = "CLOSED"
    /\ consecFailures = 0
    /\ logBuffer = <<>> /\ spanBuffer = <<>> /\ timer = TRUE
    /\ batchSize = 1
    /\ maxBufferSize = 2
    /\ innerHasSendSpans = TRUE
    /\ flights = {}
    /\ nextLog = 1 /\ nextSpan = 1
    /\ call = NoCall /\ done = NoDone
    /\ lastLogDrain = 1 /\ lastSpanDrain = 1
    /\ lostLogs = {} /\ lostSpans = {}
    /\ sentLogs = {} /\ sentSpans = {}
    /\ settled = "none"
    /\ hist = "init"
    /\ hub = NewHub
    /\ sm = NewSpanManager
    /\ bb = NewBreadcrumbBuffer(DefaultMaxSize)
    /\ tc = NoTraceCall
    /\ se = NoSerialize
    /\ scope = NoScope
    /\ con = NoConsole
    /\ \/ /\ node = NoNode
          /\ maxRetries \in 0..MaxBatchRetries
          /\ retryDelayMs \in 1..MaxBatchDelayMs
       \/ /\ node \in {LogTideClient(o) : o \in NodeOptions}
          /\ maxRetries = 0
          /\ retryDelayMs = 1

\* The retry loop of one batch at a time is what is looked at here.
MaxRetryLogs == 1

BatchNext ==
    \/ nextLog <= MaxRetryLogs /\ SendLogs(1)
    \/ ManualFlush
    \/ TimerFlush
    \/ \E f \in flights : InnerResolve(f)
    \/ \E f \in flights : InnerReject(f)
    \/ \E f \in flights : BackoffElapsed(f)

NodeNext ==
    \/ node.nextLog <= MaxRetryLogs /\ NodeLog
    \/ NodeManualFlush
    \/ NodeTimerFlush
    \/ NodeClose
    \/ \E f \in node.flights : NodeFetchOk(f)
    \/ \E f \in node.flights : NodeFetchFail(f)
    \/ \E f \in node.flights : NodeSleepDone(f)

NextRetry ==
    \/ ~node.active /\ BatchNext
    \/ NodeNext
    \/ Advance

SpecRetry == InitRetry /\ [][NextRetry]_vars

\* The batch a node flight carries names it: entries are numbered once.
SameNodeBatch(f, g) == f.logs = g.logs

SameBatch(f, g) == FlushOf(f) = FlushOf(g) /\ f.phase = g.phase

\* BatchTransport.sendWithRetry: a backoff wait begins only after a failed
\* attempt k < maxRetries and is set to retryDelayMs * 2^k from that moment;
\* attempt k+1 starts no earlier; the batch of a last attempt ends in the
\* step in which that attempt ends.
C13_BatchStep ==
    /\ \A g \in flights' :
          (g.wait = "timer" /\ g \notin flights) =>
              \E f \in flights :
                  /\ f.wait = "inner" /\ SameBatch(f, g)
                  /\ g.attempt = f.attempt
                  /\ f.attempt < maxRetries
                  /\ g.wakeAt - now = retryDelayMs * (2 ^ f.attempt)
    /\ \A f \in flights :
          (f.wait = "timer" /\ f \notin flights') =>
              /\ now >= f.wakeAt
              /\ \E g \in flights' :
                    SameBatch(f, g) /\ g.wait = "inner" /\ g.attempt = f.attempt + 1
    /\ \A f \in flights :
          (f.wait = "inner" /\ f.attempt = maxRetries /\ f \notin flights') =>
              /\ done'.items = CurBatch(f) /\ done'.outcome \in {"sent", "failed"}
              /\ ~\E g \in flights' : SameBatch(f, g) /\ g.phase = f.phase /\ g.wait = "timer"

\* The same for LogTideClient.flush of the node client.
C13_NodeStep ==
    /\ \A g \in node'.flights :
          (g.wait = "sleep" /\ g \notin node.flights) =>
              \E f \in node.flights :
                  /\ f.wait = "fetch" /\ SameNodeBatch(f, g)
                  /\ g.attempt = f.attempt
                  /\ f.attempt < node.maxRetries
                  /\ g.wakeAt - now = node.retryDelayMs * (2 ^ f.attempt)
                  /\ node'.op.delay = node.retryDelayMs * (2 ^ f.attempt)
    /\ \A f \in node.flights :
          (f.wait = "sleep" /\ f \notin node'.flights) =>
              /\ now >= f.wakeAt
              /\ \E g \in node'.flights :
                    SameNodeBatch(f, g) /\ g.wait = "fetch" /\ g.attempt = f.attempt + 1
    /\ \A f \in node.flights :
          (f.wait = "fetch" /\ f.attempt = node.maxRetries /\ f \notin node'.flights) =>
              ~\E g \in node'.flights : SameNodeBatch(f, g)

\* C13: between failed attempt k (0-indexed) of a batch and its next
\* attempt the wait is exactly retryDelayMs * 2^k, without jitter, and no
\* wait follows the last failed attempt, in BatchTransport.sendWithRetry
\* and in the node LogTideClient.flush.
C13_Backoff == [][C13_BatchStep /\ C13_NodeStep]_vars

\* The node client sleeps after failed attempt 1 of a batch, for twice its
\* retryDelayMs of 2.
C13_Witness ==
    /\ node.active
    /\ node.retryDelayMs = 2
    /\ node.op.name = "fetchFail" /\ node.op.delay = 4
    /\ \E f \in node.flights : f.wait = "sleep" /\ f.attempt = 1 /\ f.wakeAt = now + 4

\* ----------------------------------------------------- BreadcrumbBuffer
\* The buffer works on its own: the rest stays as constructed.
bbFrame == <<cbVars, now, cfgVars, btVars, obsVars, consecFailures, histVars, hub, sm, node, tc, se, scope, con>>

MaxCapacity == 3
MaxAdds == 4

BbOp(b, name, ret) ==
    /\ bb' = [b EXCEPT !.op = [name |-> name, ret |-> ret]]
    /\ UNCHANGED bbFrame

\* breadcrumb-buffer.ts 8-10: new BreadcrumbBuffer(maxSize)
BbNew(maxSize) ==
    /\ bb' = NewBreadcrumbBuffer(maxSize)
    /\ UNCHANGED bbFrame

\* breadcrumb-buffer.ts 12-17: add(breadcrumb); breadcrumbs are numbered in
\* the order they are made
BbAdd ==
    /\ bb.next <= MaxAdds
    /\ BbOp([bb EXCEPT !.buffer = BreadcrumbAdd(bb.buffer, bb.maxSize, bb.next),
                       !.added = Append(@, bb.next),
                       !.next = @ + 1],
            "add", <<>>)

\* breadcrumb-buffer.ts 19-21: getAll() returns a copy
BbGetAll == BbOp(bb, "getAll", bb.buffer)

\* breadcrumb-buffer.ts 23-25: clear()
BbClear == BbOp([bb EXCEPT !.buffer = <<>>, !.added = <<>>], "clear", <<>>)

InitCrumbs ==
    /\ InitCB
    /\ threshold = 1 /\ resetMs = 1

NextCrumbs ==
    \/ \E maxSize \in 0..MaxCapacity : BbNew(maxSize)
    \/ BbAdd
    \/ BbGetAll
    \/ BbClear

SpecCrumbs == InitCrumbs /\ [][NextCrumbs]_vars

\* the last n elements of s
LastN(s, n) == SubSeq(s, Len(s) - n + 1, Len(s))

\* A buffer of capacity at least 1 holds the last min(n, maxSize) of the n
\* breadcrumbs added since construction or the last clear(), in the order
\* they were added, and getAll() returns just these.
C21_FifoState ==
    bb.maxSize >= 1 =>
        /\ bb.buffer = LastN(bb.added, Min(Len(bb.added), bb.maxSize))
        /\ bb.op.name = "getAll" => bb.op.ret = bb.buffer

\* add() keeps the new breadcrumb last, and what it evicts is the oldest.
C21_AddStep ==
    (bb.maxSize >= 1 /\ bb'.maxSize = bb.maxSize /\ bb'.next = bb.next + 1) =>
        /\ bb'.buffer # <<>> /\ bb'.buffer[Len(bb'.buffer)] = bb.next
        /\ \/ bb'.buffer = Append(bb.buffer, bb.next)
           \/ Len(bb.buffer) = bb.maxSize /\ bb'.buffer = Append(Tail(bb.buffer), bb.next)

C22_NeverExceeds == bb.maxSize >= 0 => Len(bb.buffer) <= bb.maxSize

\* ---------------------------------------------------- W3C trace context
tcFrame == <<cbVars, now, cfgVars, btVars, obsVars, consecFailures, histVars, hub, sm, node, bb, se, scope, con>>

\* w3c-trace-context.ts 14: the lengths in TRACEPARENT_REGEX
VersionLen == 2
TraceIdLen == 32
SpanIdLen == 16
FlagsLen == 2

\* [0-9a-f]
HexDigits ==
    <<"0", "1", "2", "3", "4", "5", "6", "7", "8", "9", "a", "b", "c", "d", "e", "f">>

IsHex(c) == \E i \in 1..Len(HexDigits) : HexDigits[i] = c

\* parseInt of one hex digit
HexVal(c) == (CHOOSE i \in 1..Len(HexDigits) : HexDigits[i] = c) - 1

\* parseInt(s, 16) of a string of hex digits
RECURSIVE ParseHex(_)
ParseHex(s) ==
    IF s = <<>> THEN 0 ELSE 16 * ParseHex(SubSeq(s, 1, Len(s) - 1)) + HexVal(s[Len(s)])

IsWhite(c) == c = " "

\* String.prototype.trim
RECURSIVE TrimStart(_)
TrimStart(s) == IF s # <<>> /\ IsWhite(Head(s)) THEN TrimStart(Tail(s)) ELSE s

RECURSIVE TrimEnd(_)
TrimEnd(s) ==
    IF s # <<>> /\ IsWhite(s[Len(s)]) THEN TrimEnd(SubSeq(s, 1, Len(s) - 1)) ELSE s

Trim(s) == TrimEnd(TrimStart(s))

AllHex(s, from, to) == \A i \in from..to : IsHex(s[i])

\* w3c-trace-context.ts 14: where the groups of TRACEPARENT_REGEX begin and end
TraceIdFrom == VersionLen + 2
TraceIdTo == VersionLen + 1 + TraceIdLen
SpanIdFrom == TraceIdTo + 2
SpanIdTo == TraceIdTo + 1 + SpanIdLen
FlagsFrom == SpanIdTo + 2
FlagsTo == SpanIdTo + 1 + FlagsLen

\* w3c-trace-context.ts 14, 17: s.match(TRACEPARENT_REGEX) is not null
MatchesTraceparent(s) ==
    /\ Len(s) = FlagsTo
    /\ AllHex(s, 1, VersionLen)
    /\ s[VersionLen + 1] = "-"
    /\ AllHex(s, TraceIdFrom, TraceIdTo)
    /\ s[TraceIdTo + 1] = "-"
    /\ AllHex(s, SpanIdFrom, SpanIdTo)
    /\ s[SpanIdTo + 1] = "-"
    /\ AllHex(s, FlagsFrom, FlagsTo)

\* (the flags compared with "01" as a whole)
parseTraceparent_FlagsEqual(header) ==
    LET s == Trim(header)
    IN  IF ~MatchesTraceparent(s) THEN NullContext
        ELSE [null |-> FALSE,
              version |-> SubSeq(s, 1, VersionLen),
              traceId |-> SubSeq(s, TraceIdFrom, TraceIdTo),
              parentSpanId |-> SubSeq(s, SpanIdFrom, SpanIdTo),
              sampled |-> ParseHex(SubSeq(s, FlagsFrom, FlagsTo)) = 0]

\* w3c-trace-context.ts 16-26
parseTraceparent(header) ==
    LET s == Trim(header)
    IN  IF ~MatchesTraceparent(s) THEN NullContext
        ELSE [null |-> FALSE,
              version |-> SubSeq(s, 1, VersionLen),
              traceId |-> SubSeq(s, TraceIdFrom, TraceIdTo),
              parentSpanId |-> SubSeq(s, SpanIdFrom, SpanIdTo),
              sampled |-> ParseHex(SubSeq(s, FlagsFrom, FlagsTo)) % 2 = 1]

\* w3c-trace-context.ts 28-31
createTraceparent(traceId, spanId, sampled) ==
    <<"0", "0", "-">> \o traceId \o <<"-">> \o spanId \o <<"-">>
        \o (IF sampled THEN <<"0", "1">> ELSE <<"0", "0">>)

\* The strings given as ids: a short beginning, then one character repeated
\* up to a length at, below or above the one asked for. Two of the
\* characters are lowercase hex digits, one is an uppercase one.
MaxSeedLen == 1
IdChars == {"0", "a", "F"}

Seeds == UNION {[1..n -> IdChars] : n \in 0..MaxSeedLen}

Filled(seed, c, n) == [i \in 1..n |-> IF i <= Len(seed) THEN seed[i] ELSE c]

IdStrings(len) ==
    {Filled(seed, c, n) : seed \in Seeds, c \in IdChars, n \in {len - 1, len, len + 1}}

\* What may surround a header that is parsed
Paddings == {<<>>, <<" ">>, <<"x">>}

\* the header of the last call is made by createTraceparent and parsed
TcRoundTrip(traceId, spanId, sampled) ==
    /\ tc.op = "none"
    /\ tc' = [op |-> "roundTrip", traceId |-> traceId, spanId |-> spanId,
              sampled |-> sampled,
              header |-> createTraceparent(traceId, spanId, sampled),
              parsed |-> parseTraceparent(createTraceparent(traceId, spanId, sampled))]
    /\ UNCHANGED tcFrame

\* a header received from elsewhere is parsed: the last one made, with
\* something before and after it, and its flags as the sender set them
TcParse(before, after, flags) ==
    /\ tc.op = "roundTrip"
    /\ LET made == createTraceparent(tc.traceId, tc.spanId, tc.sampled)
           header == before \o SubSeq(made, 1, Len(made) - FlagsLen) \o flags \o after
       IN  tc' = [tc EXCEPT !.op = "parse", !.header = header,
                            !.parsed = parseTraceparent(header)]
    /\ UNCHANGED tcFrame

FlagValues == {<<"0", "1">>, <<"0", "3">>, <<"f", "e">>}

InitTrace ==
    /\ InitCB
    /\ threshold = 1 /\ resetMs = 1

NextTrace ==
    \/ /\ tc.op = "none"
       /\ \E traceId \in IdStrings(TraceIdLen) : \E spanId \in IdStrings(SpanIdLen) :
             \E sampled \in BOOLEAN : TcRoundTrip(traceId, spanId, sampled)
    \/ \E before \in Paddings : \E after \in Paddings : \E flags \in FlagValues :
          TcParse(before, after, flags)

SpecTrace == InitTrace /\ [][NextTrace]_vars

\* a string of exactly n lowercase hex characters
IsLowerHexString(s, n) ==
    /\ Len(s) = n
    /\ \A i \in 1..Len(s) : s[i] \in {"0", "1", "2", "3", "4", "5", "6", "7", "8", "9",
                                       "a", "b", "c", "d", "e", "f"}

\* C23: for every traceId T of 32 lowercase hex characters, every span id S
\* of 16 lowercase hex characters and every boolean b,
\* parseTraceparent(createTraceparent(T, S, b)) is non-null and equals
\* {version: "00", traceId: T, parentSpanId: S, sampled: b}.
C23_RoundTrip ==
    (/\ tc.op = "roundTrip"
     /\ IsLowerHexString(tc.traceId, 32)
     /\ IsLowerHexString(tc.spanId, 16)) =>
        tc.parsed = [null |-> FALSE, version |-> <<"0", "0">>, traceId |-> tc.traceId,
                     parentSpanId |-> tc.spanId, sampled |-> tc.sampled]

\* A sampled header of valid ids was made and parsed back.
C23_Witness ==
    /\ tc.op = "roundTrip"
    /\ IsLowerHexString(tc.traceId, 32) /\ tc.traceId[1] = "a"
    /\ IsLowerHexString(tc.spanId, 16) /\ tc.spanId[1] = "0"
    /\ tc.sampled
    /\ ~tc.parsed.null /\ tc.parsed.sampled

\* ------------------------------------------------------- serializeError
seFrame == <<cbVars, now, cfgVars, btVars, obsVars, consecFailures, histVars, hub, sm, node, bb, tc, scope, con>>

MaxValues == 2

\* The frames the engine has room for: more than any chain of distinct values
\* made here needs, so that only an endless recursion runs out of them.
StackLimit == MaxValues + 1

\* What an `unknown` can be, as far as serializeError tells values apart: an
\* Error; a string; an object that is no Error, with a string `message`, or
\* without one and then either one JSON.stringify accepts or one it throws a
\* TypeError for (a reference to itself, a BigInt inside); anything else
\* (undefined, null, a number, a boolean, a symbol, a function).
ValueKinds == {"Error", "string", "objectWithMessage", "object", "objectNoJson", "other"}

\* the two implementations: part_001 69-121 and node/src/index.ts 265-328
Languages == {"javascript", "nodejs"}

\* part_001 105 / node 316: JSON.stringify(error) throws
StringifyThrows(kind) == kind = "objectNoJson"

\* serializeError(error) is called by the capture path
SeCall(language, kind, cause, v) ==
    /\ se.status = "idle"
    /\ se' = [NoSerialize EXCEPT !.status = "running", !.language = language,
                                 !.kind = kind, !.cause = cause,
                                 !.stack = <<[value |-> v, phase |-> "enter"]>>]
    /\ UNCHANGED seFrame

\* the innermost call returns its StructuredException to its caller
SeReturn(s) ==
    IF Len(s.stack) = 1
    THEN [s EXCEPT !.status = "returned", !.stack = <<>>, !.serialized = @ + 1]
    ELSE [s EXCEPT !.stack = [SubSeq(@, 1, Len(@) - 1) EXCEPT ![Len(@) - 1].phase = "afterCause"],
                   !.serialized = @ + 1]

\* an exception leaves every frame: no call of the recursion has a handler
SeThrow(s, what) == [s EXCEPT !.status = "threw", !.stack = <<>>, !.thrown = what]

\* part_001 70-121 / node 266-327: the innermost call goes on to its next
\* call or to its end
SeStepOf(s) ==
    LET top == s.stack[Len(s.stack)]
        v == top.value
    IN  IF s.kind[v] = "Error"
        THEN IF top.phase = "enter" /\ s.cause[v] # 0
             THEN IF Len(s.stack) >= StackLimit
                  THEN SeThrow(s, "RangeError")
                  ELSE [s EXCEPT !.stack = Append(@, [value |-> s.cause[v], phase |-> "enter"])]
             ELSE SeReturn(s)
        ELSE IF StringifyThrows(s.kind[v]) THEN SeThrow(s, "TypeError")
        ELSE SeReturn(s)

SeStep ==
    /\ se.status = "running"
    /\ se' = SeStepOf(se)
    /\ UNCHANGED seFrame

InitSerialize ==
    /\ InitCB
    /\ threshold = 1 /\ resetMs = 1

NextSerialize ==
    \/ /\ se.status = "idle"
       /\ \E language \in Languages : \E kind \in [1..MaxValues -> ValueKinds] :
             \E cause \in [1..MaxValues -> 0..MaxValues] : \E v \in 1..MaxValues :
                SeCall(language, kind, cause, v)
    \/ SeStep

SpecSerialize == InitSerialize /\ [][NextSerialize]_vars

\* C24: serializeError is total: for every input value it returns a
\* StructuredException after finitely many steps and without throwing, for
\* every shape of cause chain (long or cyclic) and for every non-null object
\* whatever its contents.
C24_Total == se.status # "threw"

\* ---------------------------------------------------------------- Scope
scopeFrame ==
    <<cbVars, now, cfgVars, btVars, obsVars, consecFailures, histVars, hub, sm, node, bb, tc, se, con>>

\* trace-id.ts 1-11: randomHex(length) of the bytes crypto.getRandomValues
\* gave: two characters of HEX for each byte, high nibble first
RECURSIVE randomHex(_)
randomHex(bytes) ==
    IF bytes = <<>> THEN <<>>
    ELSE <<HexDigits[(Head(bytes) \div 16) + 1], HexDigits[(Head(bytes) % 16) + 1]>>
            \o randomHex(Tail(bytes))

\* trace-id.ts 15: the number of random bytes of a trace id
TraceIdBytes == 16

\* the values crypto.getRandomValues fills the array with: every byte the
\* same, or the bytes counting up from it
ByteSamples == {0, 9, 171, 255}

RandomBytes(n) ==
    {[i \in 1..n |-> b] : b \in ByteSamples}
        \cup {[i \in 1..n |-> (b + i) % 256] : b \in ByteSamples}

\* trace-id.ts 14-16
generateTraceId(bytes) == randomHex(bytes)

\* The trace ids callers pass: those of the tests (client.test.ts 111,
\* integrations.test.ts 128) and strings of about the right length
SuppliedTraceIds ==
    {<<"m", "y", "-", "t", "r", "a", "c", "e">>, <<"a", "b", "c", "1", "2", "3">>}
        \cup IdStrings(TraceIdLen)

\* new Scope(traceId): the id is stored as given
\* (integrations.test.ts 127-130)
NewScope(from, traceId) == [from |-> from, traceId |-> traceId, tags |-> {}, op |-> "new"]

\* hub.ts 14-16: the default scope of the Hub
HubGlobalScope(bytes) ==
    /\ scope' = NewScope("hub", generateTraceId(bytes))
    /\ UNCHANGED scopeFrame

\* new Scope(traceId) called directly
ScopeNew(traceId) ==
    /\ scope' = NewScope("new", traceId)
    /\ UNCHANGED scopeFrame

\* client.createScope(traceId) (client.test.ts 110-113)
CreateScopeWith(traceId) ==
    /\ scope' = NewScope("createScope", traceId)
    /\ UNCHANGED scopeFrame

\* client.createScope() (client.test.ts 115-118): the id is generated
CreateScopeAuto(bytes) ==
    /\ scope' = NewScope("createScopeAuto", generateTraceId(bytes))
    /\ UNCHANGED scopeFrame

TagKeys == {"env", "version"}

\* scope.setTag(k, v): mutates in place, the traceId stays
ScopeSetTag(k) ==
    /\ scope.from # "none"
    /\ scope' = [scope EXCEPT !.tags = @ \cup {k}, !.op = "setTag"]
    /\ UNCHANGED scopeFrame

\* scope.clear(): resets tags, extras, breadcrumbs and spans, preserves traceId
ScopeClear ==
    /\ scope.from # "none"
    /\ scope' = [scope EXCEPT !.tags = {}, !.op = "clear"]
    /\ UNCHANGED scopeFrame

InitScope ==
    /\ InitCB
    /\ threshold = 1 /\ resetMs = 1

NextScope ==
    \/ scope.from = "none" /\ \E bytes \in RandomBytes(TraceIdBytes) : HubGlobalScope(bytes)
    \/ scope.from = "none" /\ \E traceId \in SuppliedTraceIds : ScopeNew(traceId)
    \/ scope.from = "none" /\ \E traceId \in SuppliedTraceIds : CreateScopeWith(traceId)
    \/ scope.from = "none" /\ \E bytes \in RandomBytes(TraceIdBytes) : CreateScopeAuto(bytes)
    \/ \E k \in TagKeys : ScopeSetTag(k)
    \/ ScopeClear

SpecScope == InitScope /\ [][NextScope]_vars

\* a string of exactly n hex characters, of either case
IsHexString(s, n) ==
    /\ Len(s) = n
    /\ \A i \in 1..Len(s) : s[i] \in {"0", "1", "2", "3", "4", "5", "6", "7", "8", "9",
                                       "a", "b", "c", "d", "e", "f",
                                       "A", "B", "C", "D", "E", "F"}

\* C25: the traceId of every Scope is a string of exactly 32 hex characters,
\* at creation and after any sequence of operations, also when the caller
\* supplies the trace id (Scope constructor, client.createScope(traceId)).
C25_TraceIdHex == scope.from # "none" => IsHexString(scope.traceId, 32)

\* ------------------------------------------- node LogTideClient, whole
\* The options the node client is constructed with when all of its
\* operations are looked at: a batch size of 1 or the default, a buffer of 1
\* or 2 entries, one retry, a breaker that opens at the first failure.
NodeClientOptions ==
    [batchSize : {1, Null}, maxBufferSize : {1, 2},
     maxRetries : {1},
     retryDelayMs : {1},
     circuitBreakerThreshold : {1}, circuitBreakerResetMs : {1}]

\* node/src/index.ts 376-402: new LogTideClient(options)
NodeNew(o) ==
    /\ ~node.active
    /\ node' = LogTideClient(o)
    /\ UNCHANGED <<now, nodeFrame>>

\* No client is constructed yet; the clock is past the epoch. The transport
\* of the core stays as constructed.
InitNode ==
    /\ Init
    /\ threshold = 1 /\ batchSize = 1 /\ maxBufferSize = 1 /\ maxRetries = 0
    /\ innerHasSendSpans

NextNode ==
    \/ \E o \in NodeClientOptions : NodeNew(o)
    \/ NodeLog
    \/ NodeManualFlush
    \/ NodeTimerFlush
    \/ NodeClose
    \/ \E f \in node.flights : NodeFetchOk(f)
    \/ \E f \in node.flights : NodeFetchFail(f)
    \/ \E f \in node.flights : NodeSleepDone(f)
    \/ Advance

SpecNode == InitNode /\ [][NextNode]_vars

\* close() resolves in this step
CloseResolves == node.closing # "resolved" /\ node'.closing = "resolved"

\* When close() resolves, none of the logs buffered when it was called is
\* still in the buffer
C26_DrainedStep ==
    CloseResolves => Elems(node'.closeBatch) \cap Elems(node'.buffer) = {}

\* After close() was called the timer is stopped and starts no flush
C26_TimerState == node.closing # "none" => ~node.timer /\ ~ENABLED NodeTimerFlush

\* C26: close() stops the flush timer and flushes the buffered logs: once
\* close() has resolved, every log buffered was handed to a send and no
\* timer-driven flush happens afterwards, whatever the circuit-breaker state
\* was when close() was called.
C26_CloseFlushes == [](C26_TimerState) /\ [][C26_DrainedStep]_vars

\* The flights whose batch is given up in this step
GivenUp ==
    {f \in node.flights :
        /\ f.wait = "fetch" /\ f \notin node'.flights
        /\ node'.op.name = "fetchFail" /\ node'.op.ret = "dropped"
        /\ node'.errors = node.errors + 1}

\* maxRetries as configured: the option, or the documented default of 3
\* where it was left out
ConfiguredRetries == IF node.configuredRetries = Null THEN 3 ELSE node.configuredRetries

\* A batch is given up after exactly maxRetries + 1 requests, with one
\* breaker failure recorded, its length added to logsDropped and none of
\* its logs back in the buffer
C27_GiveUpStep ==
    \A f \in GivenUp :
        /\ f.calls = ConfiguredRetries + 1
        /\ node'.failureCount = node.failureCount + 1
        /\ node'.logsDropped = node.logsDropped + Len(f.logs)
        /\ Elems(f.logs) \cap Elems(node'.buffer) = {}

\* C27: for every configured maxRetries >= 0 (0 included), a flush() whose
\* every request fails makes exactly maxRetries+1 requests, then records one
\* breaker failure and adds the batch length to metrics.logsDropped; the
\* logs of that batch are not re-queued.
C27_ExactAttempts == [][C27_GiveUpStep]_vars

\* log() was called in this step
LogCalled == node'.op.name = "log" /\ node'.nextLog = node.nextLog + 1

\* The buffer of a constructed client holds at most maxBufferSize entries
C28_CapState == node.active => Len(node.buffer) <= node.maxBufferSize

\* A log() made while the buffer is full counts one dropped log and changes
\* neither the buffer nor anything in flight
C28_FullStep ==
    (LogCalled /\ Len(node.buffer) >= node.maxBufferSize) =>
        /\ node'.logsDropped = node.logsDropped + 1
        /\ node'.buffer = node.buffer
        /\ node'.flights = node.flights
        /\ node'.op.ret = "dropped"

\* C28: the buffer never holds more than maxBufferSize entries, and each
\* log() call made while the buffer is full increments metrics.logsDropped
\* by exactly one and leaves the buffer unchanged.
C28_BufferCapped == [](C28_CapState) /\ [][C28_FullStep]_vars

\* With a buffer of 1 and no flush, the second log() was dropped.
C28_Witness ==
    /\ node.active /\ node.maxBufferSize = 1
    /\ node.buffer = <<1>> /\ node.nextLog = 3
    /\ node.op.name = "log" /\ node.op.ret = "dropped"
    /\ node.logsDropped = 1 /\ node.flights = {} /\ node.errors = 0 /\ node.logsSent = 0

\* ------------------------------------- node LogTideClient, trace context
\* this.currentTraceId is a string or null ("null" here); withStack holds
\* the withTraceId calls that have not returned, the innermost last: the
\* traceId each was given, its local previousTraceId, and whether its fn
\* has called setTraceId itself.
MaxDepth == 2
TraceIdArgs == {"t1", "t2"}

\* the function passed to withTraceId is running
InFn == node.withStack # <<>>

\* fn called setTraceId itself: the innermost call is marked
MarkSet(stack) ==
    IF stack = <<>> THEN stack ELSE [stack EXCEPT ![Len(stack)].set = TRUE]

\* node/src/index.ts 415-417: setTraceId(traceId), by the application or by
\* the running fn
NodeSetTraceId(traceId) ==
    /\ node.active
    /\ NodeOp([node EXCEPT !.currentTraceId = traceId, !.withStack = MarkSet(@)],
              "setTraceId", Null, "void")

\* node/src/index.ts 422-424: getTraceId()
NodeGetTraceId ==
    /\ node.active
    /\ NodeOp(node, "getTraceId", Null, node.currentTraceId)

\* node/src/index.ts 429-432: withTraceId(traceId, fn) up to the call of fn
NodeWithTraceId(traceId) ==
    /\ node.active
    /\ Len(node.withStack) < MaxDepth
    /\ NodeOp([node EXCEPT
                  !.withStack = Append(@, [traceId |-> traceId,
                                           previous |-> node.currentTraceId,
                                           set |-> FALSE]),
                  !.currentTraceId = traceId],
              "withTraceId", Null, "void")

\* (the finally clause clears the trace id)
NodeFnEnds_Clear(how) ==
    /\ InFn
    /\ NodeOp([node EXCEPT
                  !.currentTraceId = "null",
                  !.withStack = SubSeq(@, 1, Len(@) - 1)],
              "withTraceIdEnd", Null, how)

\* node/src/index.ts 433-436: fn returns or throws; the finally clause runs
\* and withTraceId returns the value or lets the exception through
NodeFnEnds(how) ==
    /\ InFn
    /\ NodeOp([node EXCEPT
                  !.currentTraceId = node.withStack[Len(node.withStack)].previous,
                  !.withStack = SubSeq(@, 1, Len(@) - 1)],
              "withTraceIdEnd", Null, how)

\* One client, its options of no account here.
TraceClientOptions ==
    [batchSize : {Null}, maxBufferSize : {Null}, maxRetries : {Null}, retryDelayMs : {Null},
     circuitBreakerThreshold : {Null}, circuitBreakerResetMs : {Null}]

InitTraceId == InitNode

NextTraceId ==
    \/ \E o \in TraceClientOptions : NodeNew(o)
    \/ \E traceId \in TraceIdArgs \cup {"null"} : NodeSetTraceId(traceId)
    \/ NodeGetTraceId
    \/ \E traceId \in TraceIdArgs : NodeWithTraceId(traceId)
    \/ \E how \in {"returned", "threw"} : NodeFnEnds(how)

SpecTraceId == InitTraceId /\ [][NextTraceId]_vars

\* While fn runs and has not set another id itself, getTraceId() gives the
\* id its withTraceId was called with
C29_InFnState ==
    LET top == node.withStack[Len(node.withStack)]
    IN  (InFn /\ ~top.set) =>
            /\ node.currentTraceId = top.traceId
            /\ node.op.name = "getTraceId" => node.op.ret = top.traceId

\* what getTraceId() gave before each call that has not returned, the
\* innermost last (history), as this step leaves it
C29_CallStep ==
    (Len(node'.withStack) = Len(node.withStack) + 1) =>
        /\ node'.withStack[Len(node'.withStack)].previous = node.currentTraceId
        /\ SubSeq(node'.withStack, 1, Len(node.withStack)) = node.withStack

\* When withTraceId returns or fn throws, the id is the one from before
\* the call, the calls around it staying as they were
C29_EndStep ==
    (Len(node'.withStack) = Len(node.withStack) - 1) =>
        /\ node'.currentTraceId = node.withStack[Len(node.withStack)].previous
        /\ node'.withStack = SubSeq(node.withStack, 1, Len(node.withStack) - 1)
        /\ node'.op.ret \in {"returned", "threw"}

\* C29: while fn runs getTraceId() is t, and when withTraceId returns or fn
\* throws, getTraceId() equals its value from immediately before the call;
\* nested withTraceId calls restore in last-in-first-out order.
C29_Restores == [](C29_InFnState) /\ [][C29_CallStep /\ C29_EndStep]_vars

\* Inside withTraceId("t1", ...), a nested withTraceId("t2", fn) whose fn
\* threw has ended: the id is "t1" again.
C29_Witness ==
    /\ Len(node.withStack) = 1
    /\ node.withStack[1].traceId = "t1" /\ node.withStack[1].previous = "null"
    /\ node.op.name = "withTraceIdEnd" /\ node.op.ret = "threw"
    /\ node.currentTraceId = "t1"

\* --------------------------------------------------- ConsoleIntegration
\* integrations/console.ts: setup(client) keeps bound copies of the five
\* console methods and replaces each by an interceptor; teardown() puts the
\* kept copies back.
conFrame ==
    <<cbVars, now, cfgVars, btVars, obsVars, consecFailures, histVars, hub, sm, node, bb, tc, se, scope>>

MaxSetups == 2
MaxConsoleCalls == 1

\* console.ts 52-56: the breadcrumb level each method is intercepted with.
LevelOf(method) ==
    CASE method = "log" -> "info"
      [] method = "info" -> "info"
      [] method = "warn" -> "warn"
      [] method = "error" -> "error"
      [] method = "debug" -> "debug"

\* console.ts 33-48, one call of a console function whose interceptors are
\* `layers`: each interceptor calls its original first, then returns if the
\* message starts with "[LogTide]", else calls this.client!.addBreadcrumb,
\* which throws a TypeError when this.client is null; a throw in an inner
\* interceptor leaves the outer ones through their call of original.
RECURSIVE RunInterceptors(_, _, _, _, _, _)
RunInterceptors(layers, k, method, prefixed, client, crumbs) ==
    IF k > Len(layers) THEN [breadcrumbs |-> crumbs, ret |-> "returned"]
    ELSE IF prefixed
    THEN RunInterceptors(layers, k + 1, method, prefixed, client, crumbs)
    ELSE IF client[layers[k]] = Null
    THEN [breadcrumbs |-> crumbs, ret |-> "threw"]
    ELSE RunInterceptors(layers, k + 1, method, prefixed, client,
            [crumbs EXCEPT ![client[layers[k]]] =
                Append(@, [type |-> "console", category |-> method,
                           level |-> LevelOf(method)])])

\* console.ts 16-57: setup(client).
ConSetup(i, client) ==
    /\ con.setups < MaxSetups
    /\ con' = [con EXCEPT
                  !.client[i] = client,
                  !.originals[i] = [set |-> TRUE, fns |-> con.console],
                  !.console = [m \in Methods |-> Append(con.console[m], i)],
                  !.everSetup = @ \cup {i},
                  !.setups = @ + 1,
                  !.op = [name |-> "setup", ret |-> "returned"]]
    /\ UNCHANGED conFrame

\* console.ts 59-69: teardown().
ConTeardown(i) ==
    /\ con' = [con EXCEPT
                  !.console = IF con.originals[i].set THEN con.originals[i].fns ELSE @,
                  !.originals[i] = [set |-> FALSE, fns |-> NativeConsole],
                  !.client[i] = Null,
                  !.op = [name |-> "teardown", ret |-> "returned"]]
    /\ UNCHANGED conFrame

\* A call console.<method>(message) made by the program; prefixed: the
\* message starts with "[LogTide]".
ConsoleCall(method, prefixed) ==
    /\ con.calls < MaxConsoleCalls
    /\ LET r == RunInterceptors(con.console[method], 1, method, prefixed,
                                con.client, con.breadcrumbs)
       IN  con' = [con EXCEPT
                      !.breadcrumbs = r.breadcrumbs,
                      !.calls = @ + 1,
                      !.op = [name |-> "console", ret |-> r.ret]]
    /\ UNCHANGED conFrame

InitConsole ==
    /\ InitCB
    /\ threshold = 1 /\ resetMs = 1

NextConsole ==
    \/ \E i \in ConInstances : \E client \in ConClients : ConSetup(i, client)
    \/ \E i \in ConInstances : ConTeardown(i)
    \/ \E method \in Methods : \E prefixed \in BOOLEAN : ConsoleCall(method, prefixed)

SpecConsole == InitConsole /\ [][NextConsole]_vars

\* Every instance that was set up has been torn down since.
AllTornDown ==
    /\ con.everSetup # {}
    /\ \A i \in con.everSetup : ~con.originals[i].set /\ con.client[i] = Null

\* C30: once every ConsoleIntegration instance that was set up has been torn
\* down, a call of console.log/info/warn/error/debug adds no breadcrumb to
\* any client and does not throw.
C30_ConsoleRestored ==
    [][(AllTornDown /\ con'.calls = con.calls + 1) =>
           /\ con'.breadcrumbs = con.breadcrumbs
           /\ con'.op.ret # "threw"]_vars

\* ------------------------------------- the breaker inside the transport
\* A step in which the transport calls the inner transport: every operation
\* tells in `call` the call it made, if any.
SendStarts == call' # NoCall

\* C31: while the breaker is OPEN and less than resetMs has elapsed since the
\* last recorded failure, BatchTransport starts no send attempt on the inner
\* transport (the span batch of a flush whose log batch has just opened the
\* circuit and the retries of a batch in flight included).
C31_OpenShortCircuits ==
    [][SendStarts => ~(state' = "OPEN" /\ ~ResetElapsed(lastFailureTime', now'))]_vars


\* The transitions of the breaker's state machine.
BreakerEdges ==
    {<<"CLOSED", "OPEN">>, <<"OPEN", "HALF_OPEN">>, <<"HALF_OPEN", "CLOSED">>,
     <<"HALF_OPEN", "OPEN">>}

\* C33: the breaker state changes only along CLOSED->OPEN, OPEN->HALF_OPEN,
\* HALF_OPEN->CLOSED and HALF_OPEN->OPEN, under any interleaving of
\* concurrent flushes.
C33_OnlyEdges == [][state' # state => <<state, state'>> \in BreakerEdges]_vars

\* The flush() f has returned in this step: none of the flushes suspended
\* after the step holds its batches (no two flushes share an item).
FlushEnds(f) == \A g \in flights' : g.logs # f.logs \/ g.spans # f.spans

\* C34: no span accepted into the span buffer is removed from it without a
\* send attempt through sendWithRetry and a recorded breaker outcome: a span
\* leaves the buffer into a batch of a flush, and when the flush returns the
\* span was delivered or given up after the last retry.
C34_SpansAttempted ==
    [][/\ \A s \in Elems(spanBuffer) \ Elems(spanBuffer') :
              \E f \in flights' : s \in Elems(f.spans)
       /\ \A f \in flights :
              FlushEnds(f) => Elems(f.spans) \subseteq sentSpans' \cup lostSpans']_vars

\* The transport with logs only, a breaker that opens at the first failure
\* and no retry: room for an item that fails, one that probes and one more.
MaxProbeItems == 3

InitProbe ==
    /\ Init
    /\ threshold = 1 /\ maxRetries = 0
    /\ batchSize = 1 /\ maxBufferSize = 1
    /\ innerHasSendSpans

NextProbe ==
    \/ nextLog <= MaxProbeItems /\ AcceptLogs(1)
    \/ ManualFlush
    \/ TimerFlush
    \/ \E f \in flights : InnerResolve(f)
    \/ \E f \in flights : InnerReject(f)
    \/ Elapse

SpecProbe == InitProbe /\ [][NextProbe]_vars

\* C32: while the breaker is HALF_OPEN at most one batch is in flight
\* through BatchTransport; a flush() that starts while the probe is in flight
\* does not drain the buffers and does not send.
C32_SingleProbe ==
    /\ [](state = "HALF_OPEN" => Cardinality(flights) <= 1)
    /\ [][(state = "HALF_OPEN" /\ flights # {}
            /\ opName' \in {"sendLogs", "sendSpans", "flush", "timerFlush"}) =>
               /\ ~SendStarts
               /\ Len(logBuffer') >= Len(logBuffer) /\ Len(spanBuffer') >= Len(spanBuffer)]_vars

\* C35: in every reachable state of CircuitBreaker with threshold >= 1,
\* CLOSED implies failureCount < threshold, and OPEN or HALF_OPEN implies
\* failureCount >= threshold and a lastFailureTime that is set.
C35_BreakerInvariant ==
    threshold >= 1 =>
        /\ state = "CLOSED" => failureCount < threshold
        /\ state \in {"OPEN", "HALF_OPEN"} =>
               failureCount >= threshold /\ lastFailureTime # Null

\* A breaker of threshold 2 that failed in HALF_OPEN, opened again and was
\* granted another probe.
C35_Witness ==
    /\ threshold = 2 /\ state = "HALF_OPEN" /\ opName = "canAttempt"
    /\ failureCount = 3 /\ lastFailureTime # Null

\* ---------------------------------------------------- conservation of logs
\* The batches of logs in flight.
LogBatches == {f \in flights : f.phase = "logs"}

\* Each log is in at most one place, and in the buffer at most once.
C36_OnePlace ==
    /\ Increasing(logBuffer)
    /\ \A f \in LogBatches : \A g \in LogBatches :
           f # g => Elems(f.logs) \cap Elems(g.logs) = {}
    /\ Elems(logBuffer) \cap InFlightLogs = {}
    /\ (Elems(logBuffer) \cup InFlightLogs) \cap (sentLogs \cup lostLogs) = {}
    /\ sentLogs \cap lostLogs = {}
    /\ Elems(logBuffer) \cup InFlightLogs \cup sentLogs \cup lostLogs \subseteq 1..(nextLog - 1)

\* A log leaves the buffer or a batch in flight only into another of the
\* places; a log delivered or given up stays so, and the inner transport
\* accepts no log that it accepted before.
C36_Moves ==
    /\ Elems(logBuffer) \cup InFlightLogs \subseteq
           Elems(logBuffer') \cup InFlightLogs' \cup sentLogs' \cup lostLogs'
    /\ sentLogs \subseteq sentLogs' /\ lostLogs \subseteq lostLogs'
    /\ (done'.kind = "logs" /\ done'.outcome = "sent") =>
           Elems(done'.items) \cap sentLogs = {}

\* C36: each item ever passed to sendLogs is in exactly one place: dropped
\* at capacity, in the log buffer, in exactly one batch in flight, delivered
\* by a successful inner.sendLogs, or dropped after its batch exhausted its
\* retries; no item is in two batches and none is delivered twice.
C36_Conservation == [](C36_OnePlace) /\ [][C36_Moves]_vars

\* ------------------------------------------------------------- recovery
\* The transport whose inner transport fails for a while and then succeeds
\* for good: a send may fail only while the clock of the model has room for
\* the backoff delay or the breaker's reset time that the failure starts.
RecoverRoom(f) ==
    /\ now + resetMs <= MaxTime
    /\ now + BackoffDelay(f.attempt) <= MaxTime

InitRecover ==
    /\ Init
    /\ threshold = 1
    /\ maxBufferSize = 2

NextRecover ==
    \/ \E n \in 1..MaxItems : SendLogs(n)
    \/ \E n \in 1..MaxItems : SendSpans(n)
    \/ ManualFlush
    \/ TimerFlush
    \/ \E f \in flights : InnerResolve(f)
    \/ \E f \in flights : RecoverRoom(f) /\ InnerReject(f)
    \/ \E f \in flights : BackoffElapsed(f)
    \/ Elapse

\* part_000 50-51: the interval timer keeps ticking (destroy() is not
\* called); time passes; a pending send is answered and a backoff timeout
\* fires.
SpecRecover ==
    /\ InitRecover /\ [][NextRecover]_vars
    /\ WF_vars(TimerFlush)
    /\ WF_vars(Elapse)
    /\ WF_vars(\E f \in flights : InnerResolve(f))
    /\ WF_vars(\E f \in flights : BackoffElapsed(f))

\* The logs and spans handed to the inner transport so far.
HandedLogs == InFlightLogs \cup sentLogs \cup lostLogs
HandedSpans == InFlightSpans \cup sentSpans \cup lostSpans

\* C37: once every inner send succeeds and while the timer keeps ticking,
\* every item that is in a buffer is eventually handed to the inner
\* transport, and the breaker of a transport that has something to send
\* eventually returns to CLOSED, also when it is OPEN at that point.
C37_Recovery ==
    /\ \A i \in 1..MaxItems : (i \in Elems(logBuffer)) ~> (i \in HandedLogs)
    /\ \A i \in 1..MaxItems : (i \in Elems(spanBuffer)) ~> (i \in HandedSpans)
    /\ (state # "CLOSED" /\ (logBuffer # <<>> \/ spanBuffer # <<>>)) ~> (state = "CLOSED")

\* -------------------------------------------- overlapping Hub.close() calls
\* C38: under any interleaving of hub.init() calls and possibly overlapping
\* hub.close() calls, the Hub never drops its reference to a client on which
\* it has not called close().
C38_KeepsUnclosedClient ==
    [][(hub.client # 0 /\ hub'.client = 0) => hub.clients[hub.client].closed]_vars

\* ------------------------------------------- node LogTideClient accounting
\* node/src/index.ts 724-759: log(entry) with metadata that JSON cannot
\* serialise (a BigInt, which JSON.stringify throws a TypeError for at 693,
\* or a circular object, on which processValue recurses without end at 673):
\* the buffer check of 726 comes first, then the call throws before the push
\* of 754.
NodeLogUnserializable ==
    /\ node.active
    /\ node.nextLog <= MaxItems
    /\ LET taken == [node EXCEPT !.nextLog = @ + 1]
       IN  IF Len(node.buffer) >= node.maxBufferSize
           THEN NodeOp([taken EXCEPT !.logsDropped = @ + 1], "log", Null, "dropped")
           ELSE NodeOp(taken, "log", Null, "threw")

NextAccount ==
    \/ NextNode
    \/ NodeLogUnserializable

SpecAccount == InitNode /\ [][NextAccount]_vars

\* The logs of the batches in flight (no two batches share a log).
NodeInFlight == UNION {Elems(f.logs) : f \in node.flights}

\* C39: with no resetMetrics() call, the number of log() calls made equals
\* buffer length + logs of batches in flight + metrics.logsSent +
\* metrics.logsDropped.
C39_Accounting ==
    node.active =>
        node.nextLog - 1 =
            Len(node.buffer) + Cardinality(NodeInFlight) + node.logsSent + node.logsDropped

\* ------------------------------------------- logTideMiddleware (Express)
\* node.requests holds the requests the middleware has handled, in order of
\* arrival: the x-trace-id header of each ("null" without one), the traceId
\* its handler computed and whether res.end has run; node.written holds the
\* logs the middleware has had buffered, each with the request it is about
\* and the trace_id that log() gave it.
MaxRequests == 3

\* the x-trace-id headers that requests so far have carried
UsedHeaders == {node.requests[r].header : r \in 1..Len(node.requests)} \ {"null"}

\* node/src/index.ts 735: the trace_id of an entry that has none of its own,
\* autoTraceId being off
TraceIdOf(n) ==
    IF n.currentTraceId # "null" THEN n.currentTraceId ELSE "undefined"

\* node/src/index.ts 724-759: log(entry) by the middleware for request r, as
\* the client after it
MwLog(n, r, kind) ==
    LET taken == [n EXCEPT !.nextLog = @ + 1]
        pushed == [taken EXCEPT
                      !.buffer = Append(@, n.nextLog),
                      !.written = Append(@, [req |-> r, kind |-> kind,
                                             trace_id |-> TraceIdOf(n)])]
    IN  IF Len(n.buffer) >= n.maxBufferSize
        THEN [taken EXCEPT !.logsDropped = @ + 1]
        ELSE IF Len(pushed.buffer) >= n.batchSize
        THEN NodeFlush(pushed, now)
        ELSE pushed

\* middleware/index.ts 34-117: a request arrives, with x-trace-id header or
\* without; the handler sets the client's trace id, logs the request,
\* overrides res.end and calls next()
MwRequest(header) ==
    /\ node.active
    /\ Len(node.requests) < MaxRequests
    /\ header \notin UsedHeaders
    /\ LET r == Len(node.requests) + 1
           traceId == IF header # "null" THEN header ELSE node.currentTraceId
           set == IF traceId # "null" THEN [node EXCEPT !.currentTraceId = traceId] ELSE node
           listed == [set EXCEPT !.requests = Append(@, [header |-> header,
                                                         traceId |-> traceId,
                                                         ended |-> FALSE])]
       IN  NodeOp(MwLog(listed, r, "request"), "request", Null, "void")

\* middleware/index.ts 77-106: res.end of request r runs: the response is
\* logged and the original end is called
MwEnd(r) ==
    /\ node.active
    /\ ~node.requests[r].ended
    /\ NodeOp(MwLog([node EXCEPT !.requests[r].ended = TRUE], r, "response"),
              "end", Null, "void")

NextExpress ==
    \/ \E o \in TraceClientOptions : NodeNew(o)
    \/ \E header \in TraceIdArgs \cup {"null"} : MwRequest(header)
    \/ \E r \in 1..Len(node.requests) : MwEnd(r)

SpecExpress == InitNode /\ [][NextExpress]_vars

\* the response log of a request that carried a header has that header as
\* its trace_id
ResponseTrace ==
    \A i \in 1..Len(node.written) :
        LET w == node.written[i]
        IN  (w.kind = "response" /\ node.requests[w.req].header # "null")
                => w.trace_id = node.requests[w.req].header

\* a log written for a request without header does not carry the header of
\* a request that has ended
NoStaleTrace ==
    Len(node'.written) > Len(node.written) =>
        LET w == node'.written[Len(node'.written)]
        IN  node'.requests[w.req].header = "null" =>
                ~\E p \in 1..Len(node.requests) :
                    /\ node.requests[p].ended
                    /\ node.requests[p].header = w.trace_id

\* C40: with overlapping requests that carry different x-trace-id headers on
\* one shared client, the response log of a request carries the trace_id of
\* that request, and the trace id of a request that has ended is not
\* attached to logs of requests without the header.
C40_RequestTrace == [](ResponseTrace) /\ [][NoStaleTrace]_vars

====
